---- MODULE Spec2Model ----
(***************************************************************************)
(* A model of the summarization pipeline of backend/src/routes/summarize.ts *)
(* (document analysis, model selection, chunking, completeness validation,  *)
(* text normalization, the multi-model summary generation behind POST /text,*)
(* the temp files of runLocalModel, POST /file), of the summary cache and   *)
(* the text shortening of the earlier route (unnamed/part_001), of the auth *)
(* middleware (unnamed/part_009) and of the server start (index.ts).        *)
(*                                                                          *)
(* One module, several specifications over the same variables: each         *)
(* specification exercises one component and leaves the variables of the    *)
(* others at their initial value.                                           *)
(***************************************************************************)
EXTENDS Integers, Sequences, FiniteSets, TLC

VARIABLES
    phase,              \* which step of the component under check has run
    doc,                \* classifier input: the text, as a bag of words
    analysis,           \* DocumentAnalysis returned by analyzeDocument
    selected,           \* model name returned by selectModel
    requestType,        \* generateEnhancedSummary: the parameter type
    text,               \* chunkText input: the text, as a sequence of characters
    startIndex,         \* chunkText: let startIndex
    chunks,             \* chunkText: const chunks (each with the slice it was cut from)
    sections,           \* chunkText: const sections (research branch)
    sectionIndex,       \* chunkText: position of the for loop over sections
    currentChunk,       \* chunkText: let currentChunk (research branch)
    originalCheckpoint, \* validateSummaryCompleteness: first argument
    summaryCheckpoint,  \* validateSummaryCompleteness: second argument
    isComplete,         \* validateSummaryCompleteness: returned value
    calls,              \* generateEnhancedSummary: state of each model's call
    outcome,            \* generateEnhancedSummary: what the promise settles to
    reqText,            \* POST /text: req.body.text
    response,           \* POST /text: what res has been given
    completed,          \* history: the models in the order their calls settled
    saved,              \* POST /text: a Summary document has been saved
    summaryCache,       \* part_001: the Map, as its entries in insertion order
    pc,                 \* generateSummary: where each call in flight stands
    locals,             \* generateSummary: cacheKey and modelName of each call
    result,             \* generateSummary: what each call returned
    invoked,            \* history: the call has invoked the backend
    oldestKey,          \* generateSummary: the key deleted last
    raw,                \* preprocessText: the text given
    once,               \* preprocessText(raw, analysis)
    twice,              \* preprocessText(once, analysis)
    authHeader,         \* auth: req.headers.authorization of each request
    users,              \* auth: the _id of the User documents of the database
    authPc,             \* auth: where the middleware stands for each request
    decoded,            \* auth: the payload jwt.verify returned
    reqUser,            \* auth: req.user
    authStatus,         \* auth: the status the middleware answered with, or 0
    handlerRuns,        \* history: how often next() was called for the request
    bootPc,             \* index.ts: where the start of the process stands
    retryCount,         \* connectWithRetry: the parameter of the call in progress
    attempts,           \* history: the calls of mongoose.connect made so far
    timers,             \* index.ts: the pending setTimeout callbacks
    connected,          \* index.ts: a call of mongoose.connect has resolved
    listening,          \* index.ts: app.listen has been called and returned
    exitCode,           \* index.ts: the code given to process.exit, or NoExit
    bootLog,            \* index.ts: the errors console.error has reported
    filePc,             \* POST /file: where the handler stands
    upload,             \* POST /file: what upload.single('file') ends with
    filePath,           \* POST /file: let filePath
    fileOnDisk,         \* POST /file: the uploaded file exists in the upload directory
    unlinks,            \* history: the calls of fs.unlink(filePath) made
    fileText,           \* POST /file: the text extracted from the file
    fileParams,         \* POST /file: the parameters sent with axios.post
    fileSaved,          \* POST /file: newSummary.save() has resolved
    fileResponse,       \* POST /file: what res has been given
    tmpInputPath,       \* runLocalModel: const tmpInputPath of each invocation
    runPc,              \* runLocalModel: where each invocation stands
    runError,           \* runLocalModel: what made the invocation throw
    tmpFiles,           \* the temp input files that exist in the upload directory
    givenText,          \* generateSummary (part_001): the parameter text
    cleanText,          \* generateSummary (part_001): const cleanText
    textToProcess       \* generateSummary (part_001): what runLocalModel is given

classifyVars == <<doc, selected, requestType>>
chunkVars    == <<text, startIndex, chunks, sections, sectionIndex, currentChunk>>
validateVars == <<originalCheckpoint, summaryCheckpoint, isComplete>>
summaryVars  == <<calls, outcome, reqText, response, completed, saved>>

cacheVars    == <<summaryCache, pc, locals, result, invoked, oldestKey>>
normVars     == <<raw, once, twice>>
authVars     == <<authHeader, users, authPc, decoded, reqUser, authStatus, handlerRuns>>
bootVars     == <<bootPc, retryCount, attempts, timers, connected, listening,
                  exitCode, bootLog>>
fileVars     == <<filePc, upload, filePath, fileOnDisk, unlinks, fileText, fileParams,
                  fileSaved, fileResponse>>
tempVars     == <<tmpInputPath, runPc, runError, tmpFiles>>
shortenVars  == <<givenText, cleanText, textToProcess>>
moreVars     == <<authVars, bootVars, fileVars, tempVars, shortenVars>>

\* what the actions of each of the later components leave alone
coreVars     == <<phase, analysis, classifyVars, chunkVars, validateVars, summaryVars,
                  cacheVars, normVars>>
exceptAuth   == <<coreVars, bootVars, fileVars, tempVars, shortenVars>>
exceptBoot   == <<coreVars, authVars, fileVars, tempVars, shortenVars>>
exceptFile   == <<coreVars, authVars, bootVars, tempVars, shortenVars>>
exceptTemp   == <<coreVars, authVars, bootVars, fileVars, shortenVars>>
extraVars    == <<cacheVars, normVars, moreVars>>

vars == <<phase, analysis, classifyVars, chunkVars, validateVars, summaryVars, extraVars>>

None == "none"

-----------------------------------------------------------------------------
(* Small helpers on sequences and sets.                                     *)

RECURSIVE SumOver(_, _)
SumOver(S, f) ==
    IF S = {} THEN 0
    ELSE LET x == CHOOSE y \in S : TRUE IN f[x] + SumOver(S \ {x}, f)

RECURSIVE Flatten(_)
Flatten(ss) == IF ss = <<>> THEN <<>> ELSE Head(ss) \o Flatten(Tail(ss))

Min(a, b) == IF a < b THEN a ELSE b
Max(a, b) == IF a > b THEN a ELSE b

\* All sequences over S of length at most n.
SeqsUpTo(S, n) == UNION {[1..k -> S] : k \in 0..n}

-----------------------------------------------------------------------------
(* Document analysis: analyzeDocument.                                      *)
(*                                                                          *)
(* A text is a bag of words, every word followed by one blank.  The words   *)
(* are chosen so that each one is matched by exactly one of the patterns of *)
(* analyzeDocument; "xxxx" stands for a run of 2999 characters that no      *)
(* pattern matches, so that the length thresholds can be crossed, and "pad" *)
(* for one more such run, shorter, as long as it takes to bring the text to *)
(* 12000 characters.                                                        *)

Words == {"market", "abstract", "methods", "results", "references",
          "[1]", "=", "if", "xxxx", "pad"}

MaxBusiness == 4   \* most occurrences of the business word in a text
MaxFiller   == 4   \* most occurrences of the filler run in a text
MaxRep      == 1   \* most occurrences of any other word in a text

WordWidth ==
    [w \in Words |->
        CASE w = "market"     -> 6
          [] w = "abstract"   -> 8
          [] w = "methods"    -> 7
          [] w = "results"    -> 7
          [] w = "references" -> 10
          [] w = "[1]"        -> 3
          [] w = "="          -> 1
          [] w = "if"         -> 2
          [] w = "xxxx"       -> 2999
          [] w = "pad"        -> 0]

WordBound(w) ==
    IF w = "market" THEN MaxBusiness ELSE IF w = "xxxx" THEN MaxFiller ELSE MaxRep

\* the length of the words of fixed width, each with its blank
BaseLength(d) ==
    SumOver(Words \ {"pad"}, [w \in Words \ {"pad"} |-> d[w] * (WordWidth[w] + 1)])

OtherWords == Words \ {"market", "xxxx", "pad"}

Docs ==
    {d \in {[w \in Words |->
                IF w = "market" THEN b ELSE IF w = "xxxx" THEN f
                ELSE IF w = "pad" THEN p ELSE r[w]] :
             b \in 0..WordBound("market"), f \in 0..WordBound("xxxx"),
             p \in 0..1, r \in [OtherWords -> 0..MaxRep]} :
        d["pad"] = 1 => (12000 - BaseLength(d)) \in 2..3000}

\* text.length
TextLength(d) == IF d["pad"] = 1 THEN 12000 ELSE BaseLength(d)

\* (lowerText.match(businessTerms) || []).length
businessScore(d) == d["market"]

\* regex.test(text) for the structural patterns
hasAbstract(d)    == d["abstract"] > 0
hasMethodology(d) == d["methods"] > 0
hasResults(d)     == d["results"] > 0
hasReferences(d)  == d["references"] > 0
hasCitations(d)   == d["[1]"] > 0
hasEquations(d)   == d["="] > 0
hasCode(d)        == d["if"] > 0

BoolCount(bs) == Cardinality({i \in DOMAIN bs : bs[i]})

complexityScore(d) ==
    BoolCount(<<hasEquations(d), hasCitations(d), hasCode(d),
                hasMethodology(d), hasResults(d)>>)

Complexity(d) ==
    IF complexityScore(d) >= 3 THEN "high"
    ELSE IF complexityScore(d) >= 1 THEN "medium" ELSE "low"

LongThreshold   == 10000
MediumThreshold == 3000
BusinessThreshold == 3

LengthBucketLongFrom12001(d) ==
    IF TextLength(d) > 12000 THEN "long"
    ELSE IF TextLength(d) > MediumThreshold THEN "medium" ELSE "short"

LengthBucket(d) ==
    IF TextLength(d) > LongThreshold THEN "long"
    ELSE IF TextLength(d) > MediumThreshold THEN "medium" ELSE "short"

DocTypeSwapped(d) ==
    IF hasAbstract(d) /\ hasMethodology(d) /\ hasResults(d) /\ hasReferences(d)
        THEN "research"
    ELSE IF businessScore(d) > BusinessThreshold THEN "business"
    ELSE IF hasCode(d) \/ hasEquations(d) \/ Complexity(d) = "high" THEN "technical"
    ELSE IF hasAbstract(d) \/ hasCitations(d) THEN "article"
    ELSE "general"

DocType(d) ==
    IF businessScore(d) > BusinessThreshold THEN "business"
    ELSE IF hasAbstract(d) /\ hasMethodology(d) /\ hasResults(d) /\ hasReferences(d)
        THEN "research"
    ELSE IF hasCode(d) \/ hasEquations(d) \/ Complexity(d) = "high" THEN "technical"
    ELSE IF hasAbstract(d) \/ hasCitations(d) THEN "article"
    ELSE "general"

analyzeDocument(d) ==
    [type         |-> DocType(d),
     complexity   |-> Complexity(d),
     length       |-> LengthBucket(d),
     hasEquations |-> hasEquations(d),
     hasCitations |-> hasCitations(d),
     hasCode      |-> hasCode(d)]

-----------------------------------------------------------------------------
(* Model selection: MODEL_CONFIGS and selectModel.                          *)

MODEL_CONFIGS ==
    [m \in {"FLAN-T5-XL", "BART-LARGE-CNN", "LED-BASE-16384", "PEGASUS-LARGE", "T5-LARGE"} |->
        CASE m = "FLAN-T5-XL"     -> [url |-> "google/flan-t5-base", maxLength |-> 1024, minLength |-> 200]
          [] m = "BART-LARGE-CNN" -> [url |-> "facebook/bart-base", maxLength |-> 1024, minLength |-> 250]
          [] m = "LED-BASE-16384" -> [url |-> "allenai/led-base-16384", maxLength |-> 16384, minLength |-> 400]
          [] m = "PEGASUS-LARGE"  -> [url |-> "google/pegasus-base", maxLength |-> 1024, minLength |-> 150]
          [] m = "T5-LARGE"       -> [url |-> "t5-base", maxLength |-> 1024, minLength |-> 200]]

\* Object.entries(MODEL_CONFIGS): the keys in insertion order
ModelOrder == <<"FLAN-T5-XL", "BART-LARGE-CNN", "LED-BASE-16384", "PEGASUS-LARGE", "T5-LARGE">>

selectModelNoLong(d) ==
    LET a == analyzeDocument(d) IN
    IF a.type = "research" THEN "LED-BASE-16384"
    ELSE IF a.type = "technical" \/ a.complexity = "high" THEN "FLAN-T5-XL"
    ELSE IF a.type = "article" /\ a.length = "medium" THEN "BART-LARGE-CNN"
    ELSE "PEGASUS-LARGE"

selectModel(d) ==
    LET a == analyzeDocument(d) IN
    IF a.type = "research" \/ a.length = "long" THEN "LED-BASE-16384"
    ELSE IF a.type = "technical" \/ a.complexity = "high" THEN "FLAN-T5-XL"
    ELSE IF a.type = "article" /\ a.length = "medium" THEN "BART-LARGE-CNN"
    ELSE "PEGASUS-LARGE"

selectedModelIgnoringType(d, type) == selectModel(d)

\* generateEnhancedSummary:
\* type === 'file' ? 'LED-BASE-16384' : selectModel(text, type)
selectedModel(d, type) ==
    IF type = "file" THEN "LED-BASE-16384" ELSE selectModel(d)

-----------------------------------------------------------------------------
(* Strings as sequences of one-character strings, with the String methods   *)
(* chunkText uses.  Indices of the source are 0-based, SubSeq is 1-based.   *)

IsTerminator(c) == c \in {".", "!", "?"}
IsSpace(c)      == c \in {" ", "\n"}
IsUpper(c)      == c \in {"A"}
IsLower(c)      == c \in {"a", "b"}

\* String.prototype.slice(s, e): a negative index counts from the end, both
\* are clamped to the string, and an empty string results when e <= s.
SliceIndex(t, i) == IF i < 0 THEN Max(Len(t) + i, 0) ELSE Min(i, Len(t))
slice(t, s, e)   == SubSeq(t, SliceIndex(t, s) + 1, SliceIndex(t, e))

\* String.prototype.trim()
RECURSIVE trimStart(_)
trimStart(t) == IF t # <<>> /\ IsSpace(Head(t)) THEN trimStart(Tail(t)) ELSE t
RECURSIVE trimEnd(_)
trimEnd(t) ==
    IF t # <<>> /\ IsSpace(t[Len(t)]) THEN trimEnd(SubSeq(t, 1, Len(t) - 1)) ELSE t
trim(t) == trimEnd(trimStart(t))

\* First index >= i of w whose character is a terminator (term = FALSE: is
\* not a terminator), Len(w) + 1 when there is none: the end of a run of
\* [^.!?] (of [.!?]) that starts at i.
RunEnd(w, i, term) ==
    IF \E j \in i..Len(w) : IsTerminator(w[j]) = term
    THEN CHOOSE j \in i..Len(w) :
            /\ IsTerminator(w[j]) = term
            /\ \A k \in i..(j - 1) : IsTerminator(w[k]) # term
    ELSE Len(w) + 1

\* chunk.match(/[^.!?]+[.!?]+/g) || []: scanning from the left, each match is
\* a maximal run of non-terminators followed by a maximal run of terminators;
\* terminators that no run of non-terminators precedes are skipped, and so is
\* a trailing run without terminator.
RECURSIVE matchSentencesFrom(_, _)
matchSentencesFrom(w, i) ==
    IF i > Len(w) THEN <<>>
    ELSE IF IsTerminator(w[i]) THEN matchSentencesFrom(w, i + 1)
    ELSE LET j == RunEnd(w, i, TRUE) IN
         IF j > Len(w) THEN <<>>
         ELSE LET k == RunEnd(w, j, FALSE) IN
              <<SubSeq(w, i, k - 1)>> \o matchSentencesFrom(w, k)

matchSentences(w) == matchSentencesFrom(w, 1)

-----------------------------------------------------------------------------
(* chunkText, sliding-window branch (every type but research).              *)
(*                                                                          *)
(* The three sizes are CONFIG.CHUNK_SIZE (10000), CONFIG.OVERLAP_SIZE       *)
(* (1000) and the literal 100 of the lookahead, scaled down so that texts   *)
(* longer than a chunk can be enumerated; CHUNK_SIZE > 2 * OVERLAP_SIZE and *)
(* LOOKAHEAD < OVERLAP_SIZE as in the source.                               *)

CHUNK_SIZE   == 7
OVERLAP_SIZE == 3
LOOKAHEAD    == 1

MaxTextLen == 8   \* longest text given to the sliding window
MaxIter    == 6   \* most iterations of the while loop that are followed

SlideAlphabet == {"a", ".", " "}

\* let endIndex = startIndex + CONFIG.CHUNK_SIZE, then the retraction
NextEndIndex(t, s) ==
    LET endIndex == s + CHUNK_SIZE IN
    IF endIndex < Len(t)
    THEN LET chunk     == slice(t, s, endIndex + LOOKAHEAD)
             sentences == matchSentences(chunk)
         IN  IF Len(sentences) > 1
             THEN s + Len(Flatten(SubSeq(sentences, 1, Len(sentences) - 1)))
             ELSE endIndex
    ELSE endIndex

\* One iteration of while (startIndex < text.length).  Each chunk is kept
\* with the startIndex and endIndex it was sliced with.
SlideStep ==
    /\ phase = "slide"
    /\ startIndex < Len(text)
    /\ Len(chunks) < MaxIter
    /\ LET endIndex == NextEndIndex(text, startIndex) IN
       /\ chunks' = Append(chunks, [text  |-> trim(slice(text, startIndex, endIndex)),
                                    start |-> startIndex,
                                    end   |-> endIndex])
       /\ startIndex' = endIndex - OVERLAP_SIZE
    /\ UNCHANGED <<phase, analysis, text, sections, sectionIndex, currentChunk>>
    /\ UNCHANGED <<classifyVars, validateVars, summaryVars, extraVars>>

\* The loop condition fails: return chunks.
SlideReturn ==
    /\ phase = "slide"
    /\ startIndex >= Len(text)
    /\ phase' = "returned"
    /\ UNCHANGED <<analysis, chunkVars, classifyVars, validateVars, summaryVars, extraVars>>

-----------------------------------------------------------------------------
(* chunkText, section branch (research documents).                          *)

MaxSectionTextLen == 8   \* longest text given to the section branch

SectionAlphabet == {"A", "b", "\n"}

\* Does /[A-Z][a-z]+\s*\n|[A-Z][A-Z\s]+\n/ match t at index i (1-based)?
HeadingAt(t, i) ==
    /\ i <= Len(t)
    /\ IsUpper(t[i])
    /\ \/ \E j \in (i + 1)..Len(t) :
            /\ \A m \in (i + 1)..j : IsLower(t[m])
            /\ \E k \in (j + 1)..Len(t) :
                  /\ t[k] = "\n"
                  /\ \A m \in (j + 1)..(k - 1) : IsSpace(t[m])
       \/ \E k \in (i + 2)..Len(t) :
            /\ t[k] = "\n"
            /\ \A m \in (i + 1)..(k - 1) : IsUpper(t[m]) \/ IsSpace(t[m])

\* The indices of the newlines the split pattern matches: \n(?=heading)
SplitPoints(t) == {i \in 1..Len(t) : t[i] = "\n" /\ HeadingAt(t, i + 1)}

\* text.split(/\n(?=[A-Z][a-z]+\s*\n|[A-Z][A-Z\s]+\n)/): the pieces between
\* the matched newlines, the newlines themselves dropped.
RECURSIVE splitFrom(_, _)
splitFrom(t, i) ==
    IF \E p \in SplitPoints(t) : p >= i
    THEN LET p == CHOOSE q \in SplitPoints(t) :
                     q >= i /\ \A r \in SplitPoints(t) : r >= i => q <= r
         IN  <<SubSeq(t, i, p - 1)>> \o splitFrom(t, p + 1)
    ELSE <<SubSeq(t, i, Len(t))>>

splitSections(t) == splitFrom(t, 1)

Separator == <<"\n", "\n">>

\* (currentChunk + section).length <= CONFIG.CHUNK_SIZE
FitsChunk(cur, section) == Len(cur \o section) <= CHUNK_SIZE

\* if (analysis.type === 'research') ... else ...
ChunkEnter ==
    /\ phase = "entry"
    /\ IF analysis.type = "research"
       THEN /\ phase' = "sections"
            /\ sections' = splitSections(text)
       ELSE /\ phase' = "slide"
            /\ UNCHANGED sections
    /\ UNCHANGED <<analysis, text, startIndex, chunks, sectionIndex, currentChunk>>
    /\ UNCHANGED <<classifyVars, validateVars, summaryVars, extraVars>>

\* One iteration of for (const section of sections).  currentChunk is kept
\* with the index of the first section it holds, each chunk with the indices
\* of its first and last section.
SectionStep ==
    /\ phase = "sections"
    /\ sectionIndex <= Len(sections)
    /\ LET section == sections[sectionIndex] IN
       IF FitsChunk(currentChunk.text, section)
       THEN /\ currentChunk' =
                 [currentChunk EXCEPT
                    !.text = currentChunk.text
                             \o (IF currentChunk.text # <<>> THEN Separator ELSE <<>>)
                             \o section]
            /\ UNCHANGED chunks
       ELSE /\ chunks' =
                 IF currentChunk.text # <<>>
                 THEN Append(chunks, [text  |-> trim(currentChunk.text),
                                      raw   |-> currentChunk.text,
                                      first |-> currentChunk.first,
                                      last  |-> sectionIndex - 1])
                 ELSE chunks
            /\ currentChunk' = [text |-> section, first |-> sectionIndex]
    /\ sectionIndex' = sectionIndex + 1
    /\ UNCHANGED <<phase, analysis, text, startIndex, sections>>
    /\ UNCHANGED <<classifyVars, validateVars, summaryVars, extraVars>>

\* After the loop: if (currentChunk) chunks.push(currentChunk.trim()); return.
SectionReturn ==
    /\ phase = "sections"
    /\ sectionIndex > Len(sections)
    /\ chunks' =
         IF currentChunk.text # <<>>
         THEN Append(chunks, [text  |-> trim(currentChunk.text),
                              raw   |-> currentChunk.text,
                              first |-> currentChunk.first,
                              last  |-> Len(sections)])
         ELSE chunks
    /\ phase' = "returned"
    /\ UNCHANGED <<analysis, text, startIndex, sections, sectionIndex, currentChunk>>
    /\ UNCHANGED <<classifyVars, validateVars, summaryVars, extraVars>>

\* The values the variables of a component have while another one is checked.
IdleClassify == doc = None /\ selected = None /\ requestType = None
IdleChunk ==
    /\ text = <<>> /\ startIndex = 0 /\ chunks = <<>> /\ sections = <<>>
    /\ sectionIndex = 1 /\ currentChunk = [text |-> <<>>, first |-> 1]
IdleValidate ==
    originalCheckpoint = None /\ summaryCheckpoint = None /\ isComplete = FALSE
IdleSummary ==
    /\ calls = <<>> /\ outcome = [kind |-> "pending"] /\ reqText = None
    /\ response = [status |-> 0] /\ completed = <<>> /\ saved = FALSE

\* the texts chunkText is given, for an analysis of each type
NoKey == <<None, None, 0>>
IdleCache ==
    /\ summaryCache = <<>> /\ pc = <<>> /\ locals = <<>> /\ result = <<>>
    /\ invoked = <<>> /\ oldestKey = NoKey
IdleNorm == raw = <<>> /\ once = <<>> /\ twice = <<>>
IdleAuth ==
    /\ authHeader = <<>> /\ users = {} /\ authPc = <<>> /\ decoded = <<>>
    /\ reqUser = <<>> /\ authStatus = <<>> /\ handlerRuns = <<>>
NoExit == -1
IdleBoot ==
    /\ bootPc = None /\ retryCount = 0 /\ attempts = 0 /\ timers = 0
    /\ connected = FALSE /\ listening = FALSE /\ exitCode = NoExit /\ bootLog = <<>>
NoText == [length |-> 0, blank |-> TRUE, research |-> FALSE]
NoParams == [sent |-> FALSE, max_length |-> 0, min_length |-> 0]
IdleFile ==
    /\ filePc = None /\ upload = None /\ filePath = "" /\ fileOnDisk = FALSE
    /\ unlinks = 0 /\ fileText = NoText /\ fileParams = NoParams
    /\ fileSaved = FALSE /\ fileResponse = [status |-> 0]
IdleTemp == tmpInputPath = <<>> /\ runPc = <<>> /\ runError = <<>> /\ tmpFiles = {}
IdleShorten == givenText = <<>> /\ cleanText = <<>> /\ textToProcess = <<>>
IdleMore == IdleAuth /\ IdleBoot /\ IdleFile /\ IdleTemp /\ IdleShorten
IdleExtra == IdleCache /\ IdleNorm /\ IdleMore

ChunkInputs(type) ==
    IF type = "research"
    THEN SeqsUpTo(SectionAlphabet, MaxSectionTextLen)
    ELSE SeqsUpTo(SlideAlphabet, MaxTextLen)

InitChunk ==
    /\ phase = "entry"
    /\ \E type \in {"general", "research"} :
          /\ analysis = [type |-> type]
          /\ text \in ChunkInputs(type)
    /\ startIndex = 0 /\ chunks = <<>> /\ sections = <<>>
    /\ sectionIndex = 1 /\ currentChunk = [text |-> <<>>, first |-> 1]
    /\ IdleClassify /\ IdleValidate /\ IdleSummary /\ IdleExtra

NextChunk == ChunkEnter \/ SlideStep \/ SlideReturn \/ SectionStep \/ SectionReturn

SpecChunk == InitChunk /\ [][NextChunk]_vars

-----------------------------------------------------------------------------
(* Claims about chunkText, checked under SpecChunk.                         *)

Returned  == phase = "returned"
IsSliding == analysis.type # "research"

\* The part of the text a sliding-window chunk was sliced from: the
\* characters text[ChunkFrom(c) + 1 .. ChunkTo(c)].
ChunkFrom(c) == SliceIndex(text, c.start)
ChunkTo(c)   == SliceIndex(text, c.end)

StripSpace(t) == SelectSeq(t, LAMBDA c : ~IsSpace(c))
ChunkTexts    == [i \in 1..Len(chunks) |-> chunks[i].text]

\* C3: a text no longer than CONFIG.CHUNK_SIZE comes back as exactly one
\* chunk, the trimmed text.  (Stated for non-empty texts; the empty text
\* comes back as no chunk at all.)
C3_ShortTextIsOneChunk ==
    (Returned /\ 0 < Len(text) /\ Len(text) <= CHUNK_SIZE)
        => (Len(chunks) = 1 /\ chunks[1].text = trim(text))

\* C4: the sliding-window loop terminates.  With the text fixed, the loop's
\* whole state is startIndex, so it terminates exactly when it never comes
\* back to a startIndex it has already had.
C4_SlidingLoopTerminates ==
    IsSliding =>
        \A i, j \in 1..Len(chunks) : i < j => chunks[i].start # chunks[j].start

\* The reason C4 gives: every iteration moves startIndex strictly forward.
StartMovesForward ==
    [][(phase = "slide" /\ phase' = "slide") => startIndex' > startIndex]_vars

\* C5: for a non-empty text there is at least one chunk, the chunks follow
\* the text, every character that is not white space lies in a chunk (no
\* gap between one chunk and the next), and the last chunk ends where the
\* text ends.
C5_ChunksCoverText ==
    (Returned /\ Len(text) > 0) =>
        /\ Len(chunks) >= 1
        /\ IF IsSliding
           THEN /\ \A i \in 1..(Len(chunks) - 1) :
                      /\ ChunkFrom(chunks[i]) <= ChunkFrom(chunks[i + 1])
                      /\ ChunkFrom(chunks[i + 1]) <= ChunkTo(chunks[i])
                /\ \A p \in 1..Len(text) :
                      ~IsSpace(text[p]) =>
                          \E i \in 1..Len(chunks) :
                              ChunkFrom(chunks[i]) < p /\ p <= ChunkTo(chunks[i])
                /\ ChunkTo(chunks[Len(chunks)]) = Len(text)
           ELSE /\ StripSpace(Flatten(ChunkTexts)) = StripSpace(text)
                /\ chunks[Len(chunks)].last = Len(sections)

\* C6: a sliding-window chunk that is not the last one (its window was
\* examined: startIndex + CHUNK_SIZE < text.length) and whose window holds a
\* sentence terminator ends directly after a sentence terminator.  Stated
\* for the windows that hold the end of a sentence, a terminator that
\* follows another character, and for the first chunk, whose startIndex no
\* earlier retraction has moved.
C6_ChunkEndsAfterTerminator ==
    (IsSliding /\ Len(chunks) >= 1) =>
        LET c      == chunks[1]
            window == slice(text, c.start, c.start + CHUNK_SIZE + LOOKAHEAD)
        IN  (/\ c.start + CHUNK_SIZE < Len(text)
             /\ \E k \in 2..Len(window) :
                   IsTerminator(window[k]) /\ ~IsTerminator(window[k - 1]))
                => (/\ ChunkTo(c) >= 1
                    /\ IsTerminator(text[ChunkTo(c)]))

\* sections[a..b] joined with the separator, as the loop builds currentChunk
RECURSIVE JoinSections(_, _, _)
JoinSections(ss, a, b) ==
    IF a > b THEN <<>>
    ELSE LET rest == JoinSections(ss, a, b - 1) IN
         rest \o (IF rest # <<>> THEN Separator ELSE <<>>) \o ss[b]

\* C7: in the section branch every section lies whole in exactly one chunk,
\* in the original order, a new chunk is started only when the next section
\* does not fit, and a chunk of more than one section is at most
\* CONFIG.CHUNK_SIZE characters long.
C7_SectionsWholeAndWithinBudget ==
    (Returned /\ ~IsSliding) =>
        /\ \A i \in 1..Len(chunks) :
              /\ chunks[i].first <= chunks[i].last
              /\ chunks[i].text = trim(JoinSections(sections, chunks[i].first, chunks[i].last))
              /\ chunks[i].last > chunks[i].first => Len(chunks[i].raw) <= CHUNK_SIZE
        /\ \A i \in 1..(Len(chunks) - 1) :
              /\ chunks[i + 1].first = chunks[i].last + 1
              /\ Len(chunks[i].raw) + Len(sections[chunks[i + 1].first]) > CHUNK_SIZE
        /\ \A k \in 1..Len(sections) :
              sections[k] # <<>> =>
                  \E i \in 1..Len(chunks) : chunks[i].first <= k /\ k <= chunks[i].last

\* C7 without the budget of a chunk of several sections.
SectionsWhole ==
    (Returned /\ ~IsSliding) =>
        /\ \A i \in 1..Len(chunks) :
              /\ chunks[i].first <= chunks[i].last
              /\ chunks[i].text = trim(JoinSections(sections, chunks[i].first, chunks[i].last))
              /\ Len(chunks[i].raw) <= Max(CHUNK_SIZE + Len(Separator), Len(sections[chunks[i].last]))
        /\ \A i \in 1..(Len(chunks) - 1) :
              /\ chunks[i + 1].first = chunks[i].last + 1
              /\ Len(chunks[i].raw) + Len(sections[chunks[i + 1].first]) > CHUNK_SIZE
        /\ \A k \in 1..Len(sections) :
              sections[k] # <<>> =>
                  \E i \in 1..Len(chunks) : chunks[i].first <= k /\ k <= chunks[i].last

\* C5 on the runs in which startIndex only moved forward.
ChunksCoverTextWhenForward ==
    (IsSliding => \A i \in 1..(Len(chunks) - 1) : chunks[i].start < chunks[i + 1].start)
        => C5_ChunksCoverText

-----------------------------------------------------------------------------
(* The classifier and the selector applied to a text, in the order          *)
(* generateEnhancedSummary calls them.                                      *)

\* const analysis = analyzeDocument(text)
ClassifyAnalyze ==
    /\ phase = "input"
    /\ analysis' = analyzeDocument(doc)
    /\ phase' = "analyzed"
    /\ UNCHANGED <<classifyVars, chunkVars, validateVars, summaryVars, extraVars>>

\* selectModel(text, type)
ClassifySelect ==
    /\ phase = "analyzed"
    /\ selected' = selectModel(doc)
    /\ phase' = "selected"
    /\ UNCHANGED <<analysis, doc, requestType, chunkVars, validateVars, summaryVars, extraVars>>

RequestTypes == {"text", "url", "file"}

\* generateEnhancedSummary(text, type): const selectedModel = ...
RequestSelect ==
    /\ phase = "analyzed"
    /\ \E type \in RequestTypes :
          /\ requestType' = type
          /\ selected' = selectedModel(doc, type)
    /\ phase' = "requested"
    /\ UNCHANGED <<analysis, doc, chunkVars, validateVars, summaryVars, extraVars>>

InitClassify ==
    /\ phase = "input"
    /\ doc \in Docs
    /\ requestType = None
    /\ analysis = None
    /\ selected = None
    /\ IdleChunk /\ IdleValidate /\ IdleSummary /\ IdleExtra

NextClassify == ClassifyAnalyze \/ ClassifySelect \/ RequestSelect

SpecClassify == InitClassify /\ [][NextClassify]_vars

\* C1: the document type is given by the first rule that matches, in the
\* order business (more than 3 business terms), research (abstract,
\* methodology, results and references), technical (code, equations or high
\* complexity), article (abstract or citations), general.
C1_TypeByFirstMatchingRule ==
    phase \in {"analyzed", "selected"} =>
        LET business  == businessScore(doc) > 3
            research  == hasAbstract(doc) /\ hasMethodology(doc)
                         /\ hasResults(doc) /\ hasReferences(doc)
            technical == analysis.hasCode \/ analysis.hasEquations
                         \/ analysis.complexity = "high"
            article   == hasAbstract(doc) \/ analysis.hasCitations
        IN  /\ business => analysis.type = "business"
            /\ (~business /\ research) => analysis.type = "research"
            /\ (~business /\ ~research /\ technical) => analysis.type = "technical"
            /\ (~business /\ ~research /\ ~technical /\ article)
                  => analysis.type = "article"
            /\ (~business /\ ~research /\ ~technical /\ ~article)
                  => analysis.type = "general"

\* A text that matches the business rule and the research rule at once.
C1_Witness ==
    /\ phase = "analyzed"
    /\ businessScore(doc) > 3
    /\ hasAbstract(doc) /\ hasMethodology(doc) /\ hasResults(doc) /\ hasReferences(doc)
    /\ analysis.type = "business"

\* C2: selectModel returns a key of MODEL_CONFIGS, chosen by precedence:
\* research or long gives LED-BASE-16384, else technical or high complexity
\* gives FLAN-T5-XL, else a medium-length article gives BART-LARGE-CNN, else
\* PEGASUS-LARGE.
C2_SelectModelPrecedence ==
    phase = "selected" =>
        /\ selected \in DOMAIN MODEL_CONFIGS
        /\ (analysis.type = "research" \/ analysis.length = "long")
              => selected = "LED-BASE-16384"
        /\ (/\ ~(analysis.type = "research" \/ analysis.length = "long")
            /\ (analysis.type = "technical" \/ analysis.complexity = "high"))
              => selected = "FLAN-T5-XL"
        /\ (/\ ~(analysis.type = "research" \/ analysis.length = "long")
            /\ ~(analysis.type = "technical" \/ analysis.complexity = "high")
            /\ analysis.type = "article" /\ analysis.length = "medium")
              => selected = "BART-LARGE-CNN"
        /\ (/\ ~(analysis.type = "research" \/ analysis.length = "long")
            /\ ~(analysis.type = "technical" \/ analysis.complexity = "high")
            /\ ~(analysis.type = "article" /\ analysis.length = "medium"))
              => selected = "PEGASUS-LARGE"

\* A long text of high complexity that is not research: the first rule wins.
C2_Witness ==
    /\ phase = "selected"
    /\ analysis.type = "business"
    /\ analysis.complexity = "high"
    /\ analysis.length = "long"
    /\ selected = "LED-BASE-16384"

\* The model the selection rules give for a type, a length bucket and a
\* complexity, and nothing else of the document or the request.
ProfileFor(type, length, complexity) ==
    IF type = "research" \/ length = "long" THEN "LED-BASE-16384"
    ELSE IF type = "technical" \/ complexity = "high" THEN "FLAN-T5-XL"
    ELSE IF type = "article" /\ length = "medium" THEN "BART-LARGE-CNN"
    ELSE "PEGASUS-LARGE"

\* C18: the model selected for a request depends only on the type, the
\* length bucket and the complexity of its document: two requests that
\* agree on the three get the same model.
C18_SelectionDependsOnlyOnDocument ==
    phase \in {"selected", "requested"} =>
        selected = ProfileFor(analysis.type, analysis.length, analysis.complexity)

\* C18 as amended: selectModel depends only on the type, the length bucket
\* and the complexity of the document; the model generateEnhancedSummary
\* selects for a request depends on these three and on the kind of the
\* request: a file request gets LED-BASE-16384 whatever its document.
C18_SelectionDependsOnDocumentAndKind ==
    /\ phase = "selected" =>
          selected = ProfileFor(analysis.type, analysis.length, analysis.complexity)
    /\ phase = "requested" =>
          selected = IF requestType = "file" THEN "LED-BASE-16384"
                     ELSE ProfileFor(analysis.type, analysis.length, analysis.complexity)

\* A file request whose document, sent as text, gets another model.
C18_Witness ==
    /\ phase = "requested"
    /\ requestType = "file"
    /\ selected = "LED-BASE-16384"
    /\ selectModel(doc) = "PEGASUS-LARGE"

HasScenarioHeadings ==
    hasAbstract(doc) /\ hasMethodology(doc) /\ hasReferences(doc)

\* C19: a text of 12000 characters with the headings Abstract, Methodology
\* and References is classified as research and long, and selectModel
\* returns LED-BASE-16384 for it.
C19_ScenarioIsResearch ==
    (phase = "selected" /\ TextLength(doc) = 12000 /\ HasScenarioHeadings) =>
        /\ analysis.type = "research"
        /\ analysis.length = "long"
        /\ selected = "LED-BASE-16384"

\* C19 as amended: such a text is long and selectModel returns
\* LED-BASE-16384 for it; it is classified as research exactly when it also
\* holds a results marker and no more than three business terms.
C19_ScenarioIsLongAndResearchWithResults ==
    (phase = "selected" /\ TextLength(doc) = 12000 /\ HasScenarioHeadings) =>
        /\ analysis.length = "long"
        /\ selected = "LED-BASE-16384"
        /\ analysis.type = "research" <=>
              (hasResults(doc) /\ businessScore(doc) <= 3)

\* The scenario text with nothing but the three headings: an article.
C19_Witness ==
    /\ phase = "selected"
    /\ TextLength(doc) = 12000
    /\ HasScenarioHeadings
    /\ ~hasResults(doc)
    /\ analysis.type = "article"
    /\ analysis.length = "long"
    /\ selected = "LED-BASE-16384"

-----------------------------------------------------------------------------
(* Completeness validation: validateSummaryCompleteness.                    *)
(*                                                                          *)
(* A ContentCheckpoint is kept as the lengths of its five arrays, which is  *)
(* all the validation reads.                                                *)

MaxKeyPoints == 2    \* most key points of a checkpoint
MaxEntities  == 5    \* most entities of a checkpoint
MaxMetrics   == 10   \* most metrics of a checkpoint

Checkpoint(k, e, m) ==
    [key_points |-> k, entities |-> e, relationships |-> 0, metrics |-> m, context |-> 0]

Checkpoints ==
    {Checkpoint(k, e, m) : k \in 0..MaxKeyPoints, e \in 0..MaxEntities, m \in 0..MaxMetrics}

\* a / b on two array lengths, as a number of the language: 0 / 0 is NaN and
\* a / 0 is Infinity for a > 0.
Divide(a, b) ==
    IF b = 0
    THEN (IF a = 0 THEN [kind |-> "NaN"] ELSE [kind |-> "Infinity"])
    ELSE [kind |-> "finite", num |-> a, den |-> b]

\* r >= 0.7: false for NaN, true for Infinity
AtLeastSeventyPercent(r) ==
    CASE r.kind = "NaN"      -> FALSE
      [] r.kind = "Infinity" -> TRUE
      [] r.kind = "finite"   -> 10 * r.num >= 7 * r.den

validateIgnoringKeyPoints(original, summary) ==
    /\ AtLeastSeventyPercent(Divide(summary.entities, original.entities))
    /\ AtLeastSeventyPercent(Divide(summary.metrics, original.metrics))

validateSummaryCompleteness(original, summary) ==
    LET keyPointsCoverage == Divide(summary.key_points, original.key_points)
        entitiesCoverage  == Divide(summary.entities, original.entities)
        metricsCoverage   == Divide(summary.metrics, original.metrics)
    IN  /\ AtLeastSeventyPercent(keyPointsCoverage)
        /\ AtLeastSeventyPercent(entitiesCoverage)
        /\ AtLeastSeventyPercent(metricsCoverage)

Validate ==
    /\ phase = "checkpoints"
    /\ isComplete' = validateSummaryCompleteness(originalCheckpoint, summaryCheckpoint)
    /\ phase' = "validated"
    /\ UNCHANGED <<analysis, originalCheckpoint, summaryCheckpoint>>
    /\ UNCHANGED <<classifyVars, chunkVars, summaryVars, extraVars>>

InitValidate ==
    /\ phase = "checkpoints"
    /\ originalCheckpoint \in Checkpoints
    /\ summaryCheckpoint \in Checkpoints
    /\ isComplete = FALSE
    /\ analysis = None
    /\ IdleClassify /\ IdleChunk /\ IdleSummary /\ IdleExtra

NextValidate == Validate

SpecValidate == InitValidate /\ [][NextValidate]_vars

ValidatedCategories == {"key_points", "entities", "metrics"}

\* C8: where the three ratios exist (no category of the source is empty),
\* the validation passes if and only if each ratio is at least 0.7; a
\* passing validation has a ratio of at least 0.7 in every category the
\* source is not empty in; a summary with 0.5 of the key points, 0.8 of the
\* entities and 0.9 of the metrics is rejected.
C8_PassesIffEachRatioAtLeast70 ==
    phase = "validated" =>
        /\ isComplete =>
              \A c \in ValidatedCategories :
                  originalCheckpoint[c] > 0
                      => 10 * summaryCheckpoint[c] >= 7 * originalCheckpoint[c]
        /\ (\A c \in ValidatedCategories :
                /\ originalCheckpoint[c] > 0
                /\ 10 * summaryCheckpoint[c] >= 7 * originalCheckpoint[c])
              => isComplete
        /\ (/\ originalCheckpoint.key_points > 0
            /\ originalCheckpoint.entities > 0
            /\ originalCheckpoint.metrics > 0
            /\ 2 * summaryCheckpoint.key_points = originalCheckpoint.key_points
            /\ 5 * summaryCheckpoint.entities = 4 * originalCheckpoint.entities
            /\ 10 * summaryCheckpoint.metrics = 9 * originalCheckpoint.metrics)
              => ~isComplete

\* The scenario of C8: 1 of 2 key points, 4 of 5 entities, 9 of 10 metrics.
C8_Witness ==
    /\ phase = "validated"
    /\ originalCheckpoint = Checkpoint(2, 5, 10)
    /\ summaryCheckpoint = Checkpoint(1, 4, 9)
    /\ ~isComplete

\* C9: a category that is empty in the source counts as satisfied, whatever
\* the summary holds for it: the result is decided by the other categories.
C9_EmptySourceCategoryIsSatisfied ==
    phase = "validated" =>
        (isComplete <=>
            \A c \in ValidatedCategories :
                \/ originalCheckpoint[c] = 0
                \/ 10 * summaryCheckpoint[c] >= 7 * originalCheckpoint[c])

-----------------------------------------------------------------------------
(* POST /text and generateEnhancedSummary: the request is checked, one call *)
(* of the backend is made per entry of MODEL_CONFIGS, all awaited with      *)
(* Promise.all, then the best summary is chosen, saved and sent.            *)
(*                                                                          *)
(* The backend is opaque: a call either throws or returns a summary, which  *)
(* is kept as the model it came from, whether it is the empty string, and   *)
(* the checkpoint extractKeyInformation reads from it.  The text of the     *)
(* request is kept as what the handler reads from it: whether it is there,  *)
(* its length, whether it holds anything but whitespace, and its checkpoint.*)

MaxSummaryCount == 1   \* most items per category in a checkpoint of a request

OnlyFirstModel == {ModelOrder[1]}

\* Object.entries(MODEL_CONFIGS): every configured model
Models == DOMAIN MODEL_CONFIGS

\* extractKeyInformation(text) of a text with words; a text of whitespace
\* only has nothing in any category
RequestCheckpoints == {Checkpoint(MaxSummaryCount, MaxSummaryCount, MaxSummaryCount)}

\* req.body.text: undefined, "", one blank, or a text of 50 characters with
\* words in it
RequestTexts ==
    {[kind |-> "absent", length |-> 0, checkpoint |-> Checkpoint(0, 0, 0)],
     [kind |-> "string", length |-> 0, checkpoint |-> Checkpoint(0, 0, 0)],
     [kind |-> "blank", length |-> 1, checkpoint |-> Checkpoint(0, 0, 0)]}
    \cup
    {[kind |-> "words", length |-> 50, checkpoint |-> c] : c \in RequestCheckpoints}

\* !text
Falsy(t) == t.kind = "absent" \/ t.length = 0

\* text.trim().length === 0
IsBlank(t) == t.kind # "absent" /\ (t.length = 0 \/ t.kind = "blank")

NoSummary == [by |-> None, empty |-> TRUE, checkpoint |-> Checkpoint(0, 0, 0)]

NoError == [message |-> None, by |-> None]

\* The summaries a call may return: the empty string, one that keeps
\* nothing of what the checkpoints count, one that keeps the most.
BackendOutputs(m) ==
    {[by |-> m, empty |-> TRUE, checkpoint |-> Checkpoint(0, 0, 0)]}
    \cup
    {[by |-> m, empty |-> FALSE, checkpoint |-> Checkpoint(n, n, n)] :
        n \in {0, MaxSummaryCount}}

\* if (!text) return res.status(400).json({ error: 'No text provided' })
Reject ==
    /\ phase = "request"
    /\ Falsy(reqText)
    /\ response' = [status |-> 400, error |-> "No text provided"]
    /\ phase' = "responded"
    /\ UNCHANGED <<analysis, reqText, calls, completed, outcome, saved>>
    /\ UNCHANGED <<classifyVars, chunkVars, validateVars, extraVars>>

\* The handler goes on into generateEnhancedSummary(text, 'text'):
\* extractKeyInformation(text), then
\* Promise.all(Object.entries(MODEL_CONFIGS).map(async ...)): map starts the
\* five async functions one after the other, each running up to its first
\* await, before any of them can continue.
Dispatch ==
    /\ phase = "request"
    /\ ~Falsy(reqText)
    /\ originalCheckpoint' = reqText.checkpoint
    /\ calls' = [m \in Models |->
                    [status |-> "pending", summary |-> NoSummary,
                     isComplete |-> FALSE, error |-> NoError]]
    /\ phase' = "awaiting"
    /\ UNCHANGED <<analysis, reqText, response, completed, outcome, saved>>
    /\ UNCHANGED <<classifyVars, chunkVars, summaryCheckpoint, isComplete, extraVars>>

\* callHuggingFaceAPI resolves: the async function returns
\* {modelName, summary, isComplete, checkpoint}.
CallReturns(m) ==
    /\ phase = "awaiting"
    /\ calls[m].status = "pending"
    /\ \E s \in BackendOutputs(m) :
          calls' = [calls EXCEPT ![m] =
                      [status     |-> "ok",
                       summary    |-> s,
                       isComplete |-> validateSummaryCompleteness(originalCheckpoint,
                                                                  s.checkpoint),
                       error      |-> NoError]]
    /\ completed' = Append(completed, m)
    /\ UNCHANGED <<phase, analysis, reqText, response, outcome, saved>>
    /\ UNCHANGED <<classifyVars, chunkVars, validateVars, extraVars>>

\* callHuggingFaceAPI rejects with the error of runLocalModel: the catch
\* block logs it and returns null.
CallThrows(m) ==
    /\ phase = "awaiting"
    /\ calls[m].status = "pending"
    /\ calls' = [calls EXCEPT ![m] =
                    [status |-> "failed", summary |-> NoSummary, isComplete |-> FALSE,
                     error  |-> [message |-> "Failed to run local model", by |-> m]]]
    /\ completed' = Append(completed, m)
    /\ UNCHANGED <<phase, analysis, reqText, response, outcome, saved>>
    /\ UNCHANGED <<classifyVars, chunkVars, validateVars, extraVars>>

\* summaries.filter(s => s !== null), in the order of Object.entries
validSummaries(cs) ==
    LET all == [i \in 1..Len(ModelOrder) |->
                   [modelName  |-> ModelOrder[i],
                    status     |-> cs[ModelOrder[i]].status,
                    summary    |-> cs[ModelOrder[i]].summary,
                    isComplete |-> cs[ModelOrder[i]].isComplete,
                    checkpoint |-> cs[ModelOrder[i]].summary.checkpoint]]
    IN  SelectSeq(all, LAMBDA x : x.status = "ok")

\* Object.keys(x.checkpoint).length
Coverage(x) == Cardinality(DOMAIN x.checkpoint)

PickCurrent(best, current) == current

\* the callback of validSummaries.reduce
PickBest(best, current) ==
    IF current.isComplete /\ ~best.isComplete THEN current
    ELSE IF best.isComplete = current.isComplete
         THEN (IF Coverage(current) > Coverage(best) THEN current ELSE best)
         ELSE best

\* validSummaries.reduce(callback): no initial value, so the first element
\* is the first best.
RECURSIVE reduceFrom(_, _, _)
reduceFrom(vs, best, i) ==
    IF i > Len(vs) THEN best ELSE reduceFrom(vs, PickBest(best, vs[i]), i + 1)

bestSummary(vs) == reduceFrom(vs, vs[1], 2)

\* the candidates in the order their calls settled, not the order of
\* Object.entries
validByCompletion(cs) ==
    LET all == [i \in 1..Len(completed) |->
                   [modelName  |-> completed[i],
                    status     |-> cs[completed[i]].status,
                    summary    |-> cs[completed[i]].summary,
                    isComplete |-> cs[completed[i]].isComplete,
                    checkpoint |-> cs[completed[i]].summary.checkpoint]]
    IN  SelectSeq(all, LAMBDA x : x.status = "ok")

AllFailedError ==
    [kind |-> "error", message |-> "All summary generation attempts failed",
     cause |-> NoError]

SettleFailingOnAnyError(cs) ==
    LET vs == validSummaries(cs) IN
    IF Len(vs) < Len(ModelOrder)
    THEN AllFailedError
    ELSE [kind      |-> "ok",
          summary   |-> bestSummary(vs).summary,
          modelUsed |-> bestSummary(vs).modelName]

SettleRequiringComplete(cs) ==
    LET vs == SelectSeq(validSummaries(cs), LAMBDA x : x.isComplete) IN
    IF Len(vs) = 0
    THEN AllFailedError
    ELSE [kind      |-> "ok",
          summary   |-> bestSummary(vs).summary,
          modelUsed |-> bestSummary(vs).modelName]

SettleByCompletion(cs) ==
    LET vs == validByCompletion(cs) IN
    IF Len(vs) = 0
    THEN AllFailedError
    ELSE [kind      |-> "ok",
          summary   |-> IF ~bestSummary(vs).summary.empty
                        THEN bestSummary(vs).summary ELSE vs[1].summary,
          modelUsed |-> bestSummary(vs).modelName]

\* What the promise of generateEnhancedSummary settles to, once every call
\* has settled: the throw of new Error(message) when no summary is left,
\* else {summary, modelUsed} (an empty best summary is falsy:
\* validSummaries[0].summary replaces it).
Settle(cs) ==
    LET vs == validSummaries(cs) IN
    IF Len(vs) = 0
    THEN AllFailedError
    ELSE [kind      |-> "ok",
          summary   |-> IF ~bestSummary(vs).summary.empty
                        THEN bestSummary(vs).summary ELSE vs[1].summary,
          modelUsed |-> bestSummary(vs).modelName]

\* await Promise.all(...) continues once every call has settled.
Join ==
    /\ phase = "awaiting"
    /\ \A m \in Models : calls[m].status # "pending"
    /\ outcome' = Settle(calls)
    /\ phase' = "settled"
    /\ UNCHANGED <<analysis, reqText, response, calls, completed, saved>>
    /\ UNCHANGED <<classifyVars, chunkVars, validateVars, extraVars>>

\* generateEnhancedSummary threw: the catch block of the handler answers
\* res.status(500).json({ error: error.message || ... }).
Fail ==
    /\ phase = "settled"
    /\ outcome.kind = "error"
    /\ response' = [status |-> 500, error |-> outcome.message]
    /\ phase' = "responded"
    /\ UNCHANGED <<analysis, reqText, calls, completed, outcome, saved>>
    /\ UNCHANGED <<classifyVars, chunkVars, validateVars, extraVars>>

\* await newSummary.save() resolves, then res.status(200).json(...)
SaveResolves ==
    /\ phase = "settled"
    /\ outcome.kind = "ok"
    /\ saved' = TRUE
    /\ response' = [status |-> 200, summary |-> outcome.summary,
                    model_used |-> outcome.modelUsed]
    /\ phase' = "responded"
    /\ UNCHANGED <<analysis, reqText, calls, completed, outcome>>
    /\ UNCHANGED <<classifyVars, chunkVars, validateVars, extraVars>>

\* await newSummary.save() rejects: the catch block answers 500.
SaveRejects ==
    /\ phase = "settled"
    /\ outcome.kind = "ok"
    /\ response' = [status |-> 500, error |-> "save failed"]
    /\ phase' = "responded"
    /\ UNCHANGED <<analysis, reqText, calls, completed, outcome, saved>>
    /\ UNCHANGED <<classifyVars, chunkVars, validateVars, extraVars>>

Init ==
    /\ phase = "request"
    /\ reqText \in RequestTexts
    /\ response = [status |-> 0]
    /\ originalCheckpoint = Checkpoint(0, 0, 0)
    /\ summaryCheckpoint = None /\ isComplete = FALSE
    /\ analysis = None
    /\ calls = <<>>
    /\ completed = <<>>
    /\ outcome = [kind |-> "pending"]
    /\ saved = FALSE
    /\ IdleClassify /\ IdleChunk /\ IdleExtra

Next ==
    \/ Reject
    \/ Dispatch
    \/ \E m \in Models : CallReturns(m)
    \/ \E m \in Models : CallThrows(m)
    \/ Join
    \/ Fail
    \/ SaveResolves
    \/ SaveRejects

Spec == Init /\ [][Next]_vars

AnyCallFailed == \E m \in Models : calls[m].status = "failed"
AllCallsFailed == \A m \in Models : calls[m].status = "failed"

\* C10: if any backend call of the request fails, the request fails with an
\* error and no summary is returned.
C10_AnyFailureFailsRequest ==
    (phase = "settled" /\ AnyCallFailed) => outcome.kind = "error"

\* C10 as amended: the request fails exactly when every backend call has
\* failed; otherwise it returns the summary of one call that succeeded,
\* never anything taken from a failed call.
C10_FailsOnlyWhenAllCallsFail ==
    phase = "settled" =>
        /\ outcome.kind \in {"error", "ok"}
        /\ outcome.kind = "error" <=> AllCallsFailed
        /\ outcome.kind = "ok" =>
              \E m \in Models :
                  /\ calls[m].status = "ok"
                  /\ outcome.summary = calls[m].summary

\* One call failed, another succeeded, and a summary is returned.
C10_Witness ==
    /\ phase = "settled"
    /\ AnyCallFailed
    /\ outcome.kind = "ok"
    /\ calls[outcome.modelUsed].status = "ok"

\* C11: POST /text answers empty text and whitespace-only text with an error
\* before any classification and before any call of the backend.
C11_BlankTextIsRejected ==
    (IsBlank(reqText) /\ phase # "request") =>
        /\ response.status = 400
        /\ calls = <<>>

\* The backend invocations a request has made so far: one per started call.
BackendInvocations == Cardinality(DOMAIN calls)

Dispatched == phase \in {"awaiting", "settled", "responded"} /\ ~Falsy(reqText)

AllSettled == \A m \in Models : calls[m].status # "pending"

\* The position of the call chosen when the calls are read in the order
\* they were dispatched: the first one that is complete, or the first one
\* that succeeded when none is complete.
ChosenInDispatchOrder ==
    CHOOSE i \in 1..Len(ModelOrder) :
        /\ calls[ModelOrder[i]].status = "ok"
        /\ \/ calls[ModelOrder[i]].isComplete
           \/ \A m \in Models : ~calls[m].isComplete
        /\ \A j \in 1..(i - 1) :
              \/ calls[ModelOrder[j]].status # "ok"
              \/ calls[ModelOrder[i]].isComplete /\ ~calls[ModelOrder[j]].isComplete

\* the place of a model in the order the calls settled
CompletionRank(m) == CHOOSE i \in 1..Len(completed) : completed[i] = m

\* C13: the result is chosen only once every dispatched call has settled,
\* and the returned (summary, modelUsed) is the one the outcomes give when
\* read in dispatch order, whatever the order the calls completed in.
C13_JoinedThenChosenInDispatchOrder ==
    outcome.kind # "pending" =>
        /\ phase \in {"settled", "responded"}
        /\ AllSettled
        /\ ~AllCallsFailed =>
              /\ outcome.kind = "ok"
              /\ outcome.modelUsed = ModelOrder[ChosenInDispatchOrder]
              /\ outcome.summary = calls[ModelOrder[ChosenInDispatchOrder]].summary

\* The chosen call settled after another successful call that is just as
\* complete: read in completion order, the other one would have been chosen.
C13_Witness ==
    /\ phase = "settled"
    /\ outcome.kind = "ok"
    /\ \E m \in Models :
          /\ m # outcome.modelUsed
          /\ calls[m].status = "ok"
          /\ calls[m].isComplete = calls[outcome.modelUsed].isComplete
          /\ CompletionRank(m) < CompletionRank(outcome.modelUsed)

\* the error of the call that failed last
LastFailure == calls[completed[Len(completed)]].error

\* C16: when every model attempt of a request fails, generateEnhancedSummary
\* raises one error, which carries the cause of the last underlying failure.
C16_ErrorCarriesLastCause ==
    (phase = "settled" /\ AllCallsFailed) =>
        /\ outcome.kind = "error"
        /\ outcome.cause = LastFailure

AnyCallSucceeded == \E m \in Models : calls[m].status = "ok"

NoCandidateComplete == \A m \in Models : ~calls[m].isComplete

\* C17: a failing completeness validation never blocks the result: whenever
\* at least one backend call succeeds a summary is returned, also when every
\* successful candidate fails validateSummaryCompleteness.
C17_ValidationNeverBlocks ==
    (phase = "settled" /\ AnyCallSucceeded) =>
        /\ outcome.kind = "ok"
        /\ calls[outcome.modelUsed].status = "ok"
        /\ ~outcome.summary.empty => outcome.summary.by = outcome.modelUsed

\* Two calls succeeded with a non-empty summary, no candidate passed the
\* validation, and a summary is returned.
C17_Witness ==
    /\ phase = "settled"
    /\ Cardinality({m \in Models : calls[m].status = "ok" /\ ~calls[m].summary.empty}) >= 2
    /\ NoCandidateComplete
    /\ outcome.kind = "ok"
    /\ ~outcome.summary.empty

\* the models whose call succeeded with a summary that passed
\* validateSummaryCompleteness
PassedValidation == {m \in Models : calls[m].status = "ok" /\ calls[m].isComplete}

\* C29: whenever a successful model produced a summary that passed
\* validateSummaryCompleteness, the returned summary is one that passed it;
\* and modelUsed always names the model that produced the returned summary.
C29_ReturnedPassedAndModelUsedMatches ==
    (phase = "settled" /\ outcome.kind = "ok") =>
        /\ outcome.summary = calls[outcome.modelUsed].summary
        /\ outcome.summary.by = outcome.modelUsed
        /\ PassedValidation # {} => outcome.modelUsed \in PassedValidation

\* The first model in dispatch order succeeded with a summary that failed the
\* validation, a later one passed it, and the later one is returned.
C29_Witness ==
    /\ phase = "settled"
    /\ calls[ModelOrder[1]].status = "ok"
    /\ ~calls[ModelOrder[1]].summary.empty
    /\ ~calls[ModelOrder[1]].isComplete
    /\ PassedValidation # {}
    /\ outcome.kind = "ok"
    /\ outcome.modelUsed \in PassedValidation
    /\ outcome.modelUsed # ModelOrder[1]

-----------------------------------------------------------------------------
(* The summary cache of the earlier summarize route (part_001): a Map from  *)
(* cache keys to {summary, modelUsed}, filled by generateSummary.           *)
(*                                                                          *)
(* The Map is the sequence of its entries in insertion order.  Several      *)
(* calls of generateSummary are in flight at once: each runs from its entry *)
(* to its await without interruption, and from the end of the await to its  *)
(* return.  A text is the part createCacheKey reads (its first 100          *)
(* characters and its length) and what selectBestModel reads (its number of *)
(* words, whether it holds a news keyword).                                 *)

CacheCapacity == 2   \* entries the cache may keep (1000 in the source)

Callers == {"c1", "c2"}

Heads == {"h1", "h2"}

\* (two texts differ only behind their first 100 characters: one of them
\* holds a news keyword there)
CacheTexts ==
    {t \in {[head |-> h, length |-> 150, wordCount |-> 25, news |-> n] :
                h \in Heads, n \in BOOLEAN} : t.head = "h1" \/ ~t.news}

\* the second argument of generateSummary: req.file.mimetype, or undefined
FileTypes == {None, "application/pdf"}

\* `${text.substring(0, 100)}_${fileType || 'text'}_${text.length}`
createCacheKey(t, fileType) ==
    <<t.head, IF fileType = None THEN "text" ELSE fileType, t.length>>

detectTextType(t) ==
    IF t.news THEN "news" ELSE IF t.wordCount > 2000 THEN "long-form" ELSE "article"

selectBestModel(t, fileType) ==
    IF t.wordCount > 2000 \/ fileType = "application/pdf" THEN "PEGASUS"
    ELSE IF detectTextType(t) = "news" THEN "BART-CNN"
    ELSE "FLAN-T5-XL"

\* what runLocalModel may return, and what the post-processing makes of it
BackendSummaries == {"A", "A read more", "B"}

cleanedSummary(summary) == IF summary = "A read more" THEN "A" ELSE summary

cacheHasNothing(c, k) == FALSE

\* Map.prototype.has / get / set / delete on the sequence of entries
cacheHas(c, k) == \E i \in 1..Len(c) : c[i].key = k

cacheGet(c, k) == c[CHOOSE i \in 1..Len(c) : c[i].key = k].value

\* (each entry also records the text its value was computed from)
cacheSet(c, k, v, t) ==
    LET e == [key |-> k, value |-> v, from |-> t] IN
    IF cacheHas(c, k)
    THEN [i \in 1..Len(c) |-> IF c[i].key = k THEN e ELSE c[i]]
    ELSE Append(c, e)

cacheDelete(c, k) == SelectSeq(c, LAMBDA e : e.key # k)

evictNewest(c) ==
    IF Len(c) > CacheCapacity THEN cacheDelete(c, c[Len(c)].key) ELSE c

\* if (summaryCache.size > 1000) summaryCache.delete(summaryCache.keys().next().value)
evictOldest(c) ==
    IF Len(c) > CacheCapacity THEN cacheDelete(c, c[1].key) ELSE c

NoCacheText == [head |-> None, length |-> 0, wordCount |-> 0, news |-> FALSE]
NoLocals == [text |-> NoCacheText, cacheKey |-> NoKey, modelName |-> None]
NoResult == [summary |-> None, modelUsed |-> None]

\* generateSummary(text, fileType) from its entry: the cached result is
\* returned if there is one, else the model is chosen, the text cleaned and
\* runLocalModel started.
GenerateSummary(p) ==
    /\ pc[p] = "idle"
    /\ \E t \in CacheTexts, fileType \in FileTypes :
          LET k == createCacheKey(t, fileType) IN
          /\ locals' = [locals EXCEPT ![p] =
                          [text |-> t, cacheKey |-> k,
                           modelName |-> selectBestModel(t, fileType)]]
          /\ IF cacheHas(summaryCache, k)
             THEN /\ result' = [result EXCEPT ![p] = cacheGet(summaryCache, k)]
                  /\ pc' = [pc EXCEPT ![p] = "returned"]
                  /\ UNCHANGED invoked
             ELSE /\ invoked' = [invoked EXCEPT ![p] = TRUE]
                  /\ pc' = [pc EXCEPT ![p] = "awaiting"]
                  /\ UNCHANGED result
    /\ UNCHANGED <<summaryCache, oldestKey>>
    /\ UNCHANGED <<phase, analysis, classifyVars, chunkVars, validateVars, summaryVars, normVars, moreVars>>

\* runLocalModel resolves: the summary is cleaned, cached under cacheKey,
\* the oldest entry deleted if the Map has grown too large, and the result
\* returned.
BackendResolves(p) ==
    /\ pc[p] = "awaiting"
    /\ \E summary \in BackendSummaries :
          LET r == [summary |-> cleanedSummary(summary), modelUsed |-> locals[p].modelName]
              c == cacheSet(summaryCache, locals[p].cacheKey, r, locals[p].text)
          IN  /\ result' = [result EXCEPT ![p] = r]
              /\ summaryCache' = evictOldest(c)
              /\ oldestKey' = IF Len(c) > CacheCapacity THEN c[1].key ELSE oldestKey
    /\ pc' = [pc EXCEPT ![p] = "returned"]
    /\ UNCHANGED <<locals, invoked>>
    /\ UNCHANGED <<phase, analysis, classifyVars, chunkVars, validateVars, summaryVars, normVars, moreVars>>

\* runLocalModel rejects: the catch block logs the error and throws it again.
BackendRejects(p) ==
    /\ pc[p] = "awaiting"
    /\ pc' = [pc EXCEPT ![p] = "thrown"]
    /\ UNCHANGED <<summaryCache, locals, result, invoked, oldestKey>>
    /\ UNCHANGED <<phase, analysis, classifyVars, chunkVars, validateVars, summaryVars, normVars, moreVars>>

\* The caller has its answer; it may call again.
CallEnds(p) ==
    /\ pc[p] \in {"returned", "thrown"}
    /\ pc' = [pc EXCEPT ![p] = "idle"]
    /\ locals' = [locals EXCEPT ![p] = NoLocals]
    /\ result' = [result EXCEPT ![p] = NoResult]
    /\ invoked' = [invoked EXCEPT ![p] = FALSE]
    /\ UNCHANGED <<summaryCache, oldestKey>>
    /\ UNCHANGED <<phase, analysis, classifyVars, chunkVars, validateVars, summaryVars, normVars, moreVars>>

InitCache ==
    /\ phase = "cache"
    /\ analysis = None
    /\ summaryCache = <<>>
    /\ pc = [p \in Callers |-> "idle"]
    /\ locals = [p \in Callers |-> NoLocals]
    /\ result = [p \in Callers |-> NoResult]
    /\ invoked = [p \in Callers |-> FALSE]
    /\ oldestKey = NoKey
    /\ IdleClassify /\ IdleChunk /\ IdleValidate /\ IdleSummary /\ IdleNorm /\ IdleMore

NextCache ==
    \E p \in Callers :
        \/ GenerateSummary(p)
        \/ BackendResolves(p)
        \/ BackendRejects(p)
        \/ CallEnds(p)

SpecCache == InitCache /\ [][NextCache]_vars

\* the keys of the cache, oldest insertion first
KeysOf(c) == [i \in 1..Len(c) |-> c[i].key]

StoredUnder(c, k) == {c[i].value : i \in {j \in 1..Len(c) : c[j].key = k}}

\* C14: the cache never holds more than its capacity (1000 in the source)
\* once a call has finished; an insertion that brings it above the capacity
\* removes exactly one entry, the one inserted earliest, never the one just
\* inserted.
C14_CacheBoundedOldestEvicted ==
    /\ [](Len(summaryCache) <= CacheCapacity)
    /\ [][\A p \in Callers :
            (pc[p] = "awaiting" /\ pc'[p] = "returned") =>
                LET k == locals[p].cacheKey IN
                IF StoredUnder(summaryCache, k) # {}
                THEN KeysOf(summaryCache') = KeysOf(summaryCache)
                ELSE IF Len(summaryCache) < CacheCapacity
                THEN KeysOf(summaryCache') = Append(KeysOf(summaryCache), k)
                ELSE KeysOf(summaryCache') = Append(Tail(KeysOf(summaryCache)), k)]_vars

\* A call has just stored its result in a full cache: the oldest key is gone
\* and the new entry is the last one.
C14_Witness ==
    /\ oldestKey # NoKey
    /\ Len(summaryCache) = CacheCapacity
    /\ StoredUnder(summaryCache, oldestKey) = {}
    /\ \E p \in Callers :
          /\ pc[p] = "returned"
          /\ invoked[p]
          /\ summaryCache[Len(summaryCache)].key = locals[p].cacheKey
          /\ summaryCache[Len(summaryCache)].value = result[p]

\* C15: a cache miss never fails the request by itself: on a miss the
\* backend is invoked and, when it succeeds, the pair is returned and stored
\* under the key of the request; on a hit the stored pair is returned and
\* the backend is not invoked.
C15_MissRecomputesHitReturnsStored ==
    [][\A p \in Callers :
          /\ (pc[p] = "idle" /\ pc'[p] # "idle") =>
                LET k == locals'[p].cacheKey IN
                IF StoredUnder(summaryCache, k) # {}
                THEN /\ pc'[p] = "returned"
                     /\ StoredUnder(summaryCache, k) = {result'[p]}
                     /\ ~invoked'[p]
                     /\ summaryCache' = summaryCache
                ELSE /\ pc'[p] = "awaiting"
                     /\ invoked'[p]
          /\ (pc[p] = "awaiting" /\ pc'[p] = "returned") =>
                /\ result'[p].modelUsed = locals[p].modelName
                /\ result'[p].summary \in {"A", "B"}
                /\ StoredUnder(summaryCache', locals[p].cacheKey) = {result'[p]}
          /\ pc'[p] = "thrown" => pc[p] \in {"awaiting", "thrown"}]_vars

\* One call was answered from the cache without the backend, with the pair
\* another call computed and stored.
C15_Witness ==
    \E p, q \in Callers :
        /\ p # q
        /\ pc[p] = "returned" /\ ~invoked[p]
        /\ pc[q] = "returned" /\ invoked[q]
        /\ locals[p].cacheKey = locals[q].cacheKey
        /\ result[p] = result[q]
        /\ StoredUnder(summaryCache, locals[q].cacheKey) = {result[q]}

\* the texts the value stored under k was computed from
ComputedFrom(c, k) == {c[i].from : i \in {j \in 1..Len(c) : c[j].key = k}}

\* C25: a cache hit returns a summary computed from exactly the text of the
\* current request: requests with different texts never share an entry.
C25_HitComputedFromSameText ==
    [][\A p \in Callers :
          (pc[p] = "idle" /\ pc'[p] = "returned") =>
              ComputedFrom(summaryCache, locals'[p].cacheKey) = {locals'[p].text}]_vars

-----------------------------------------------------------------------------
(* Text normalization: preprocessText.                                      *)
(*                                                                          *)
(* A text is a sequence of characters.  The markers the function writes,    *)
(* [EQUATION], [CODE_BLOCK] and [CODE], and the heading word References are *)
(* kept as one element each: they hold no blank, digit, dollar or backquote,*)
(* and no pattern of the function matches inside them.  The texts hold no   *)
(* parenthesis, so the two author-year patterns have nothing to remove.     *)
(* The backquote is written as an apostrophe.                               *)

MaxNormLen == 5   \* longest text given to preprocessText

NormAlphabet == {"a", " ", "[", "1", "]", "$", "'", "References"}

Whitespace == {" ", "\n"}
Digits     == {"1"}

\* the first index from i on whose character is not in S (Len(t) + 1 if none)
RECURSIVE SkipWhile(_, _, _)
SkipWhile(t, i, S) ==
    IF i <= Len(t) /\ t[i] \in S THEN SkipWhile(t, i + 1, S) ELSE i

\* the first index from i on whose character is c (Len(t) + 1 if none)
RECURSIVE SkipUntil(_, _, _)
SkipUntil(t, i, c) ==
    IF i <= Len(t) /\ t[i] # c THEN SkipUntil(t, i + 1, c) ELSE i

\* n times the character c from index i on
RepeatsAt(t, i, c, n) ==
    /\ i + n - 1 <= Len(t)
    /\ \A j \in i..(i + n - 1) : t[j] = c

\* c{n}[^c]+c{n} at index i: the index of its last character, 0 for no match
SpanEnd(t, i, c, n) ==
    IF ~RepeatsAt(t, i, c, n) THEN 0
    ELSE LET j == SkipUntil(t, i + n, c) IN
         IF j > i + n /\ RepeatsAt(t, j, c, n) THEN j + n - 1 ELSE 0

\* (?:,\s*\d+)*\] from index j on
RECURSIVE CitationTail(_, _)
CitationTail(t, j) ==
    IF j > Len(t) THEN 0
    ELSE IF t[j] = "]" THEN j
    ELSE IF t[j] = ","
         THEN LET k == SkipWhile(t, j + 1, Whitespace)
                  m == SkipWhile(t, k, Digits)
              IN  IF m > k THEN CitationTail(t, m) ELSE 0
    ELSE 0

\* The index of the last character of the match of a pattern at index i,
\* 0 when it does not match there.
matchEnd(t, i, pattern) ==
    CASE pattern = "newlines" ->         \* /(?:\r\n|\r|\n){2,}/
            LET j == SkipWhile(t, i, {"\n"}) IN IF j - i >= 2 THEN j - 1 ELSE 0
      [] pattern = "whitespace" ->       \* /\s+/
            LET j == SkipWhile(t, i, Whitespace) IN IF j > i THEN j - 1 ELSE 0
      [] pattern = "citation" ->         \* /\[\d+(?:,\s*\d+)*\]/
            IF t[i] # "[" THEN 0
            ELSE LET j == SkipWhile(t, i + 1, Digits) IN
                 IF j > i + 1 THEN CitationTail(t, j) ELSE 0
      [] pattern = "displayEquation" -> SpanEnd(t, i, "$", 2)   \* /\$\$[^$]+\$\$/
      [] pattern = "inlineEquation"  -> SpanEnd(t, i, "$", 1)   \* /\$[^$]+\$/
      [] pattern = "codeBlock"       -> SpanEnd(t, i, "'", 3)   \* three backquotes, [^`]+, three backquotes
      [] pattern = "inlineCode"      -> SpanEnd(t, i, "'", 1)   \* one backquote, [^`]+, one backquote

\* String.prototype.replace(pattern with the flag g, replacement)
RECURSIVE replaceFrom(_, _, _, _)
replaceFrom(t, i, pattern, replacement) ==
    IF i > Len(t) THEN <<>>
    ELSE LET e == matchEnd(t, i, pattern) IN
         IF e > 0 THEN replacement \o replaceFrom(t, e + 1, pattern, replacement)
         ELSE <<t[i]>> \o replaceFrom(t, i + 1, pattern, replacement)

replace(t, pattern, replacement) == replaceFrom(t, 1, pattern, replacement)

\* the basic cleaning
basicCleaning(t) ==
    trim(replace(replace(t, "newlines", <<"\n", "\n">>), "whitespace", <<" ">>))

removeCitations(t) == replace(t, "citation", <<>>)

replaceEquations(t) ==
    replace(replace(t, "displayEquation", <<"[EQUATION]">>),
            "inlineEquation", <<"[EQUATION]">>)

replaceCode(t) ==
    replace(replace(t, "codeBlock", <<"[CODE_BLOCK]">>), "inlineCode", <<"[CODE]">>)

\* processed.split(...).filter(...).join('\n\n'): the cleaned text holds no
\* newline, so it is one section, dropped when it starts with one of the
\* heading words.
mainContent(t) == IF t # <<>> /\ t[1] = "References" THEN <<>> ELSE t

preprocessText(t, a) ==
    LET cleaned   == basicCleaning(t)
        cited     == IF a.type = "research" \/ a.hasCitations
                     THEN removeCitations(cleaned) ELSE cleaned
        equations == IF a.hasEquations THEN replaceEquations(cited) ELSE cited
        code      == IF a.hasCode THEN replaceCode(equations) ELSE equations
    IN  IF a.type = "research" THEN mainContent(code) ELSE code

\* the analyses preprocessText tells apart
NormAnalyses ==
    [type : {"general", "research"}, hasCitations : BOOLEAN,
     hasEquations : BOOLEAN, hasCode : BOOLEAN]

\* the first pass
Preprocess ==
    /\ phase = "raw"
    /\ once' = preprocessText(raw, analysis)
    /\ phase' = "once"
    /\ UNCHANGED <<raw, twice, analysis>>
    /\ UNCHANGED <<classifyVars, chunkVars, validateVars, summaryVars, cacheVars, moreVars>>

\* the second pass, on the result of the first, with the same analysis
PreprocessAgain ==
    /\ phase = "once"
    /\ twice' = preprocessText(once, analysis)
    /\ phase' = "twice"
    /\ UNCHANGED <<raw, once, analysis>>
    /\ UNCHANGED <<classifyVars, chunkVars, validateVars, summaryVars, cacheVars, moreVars>>

InitNorm ==
    /\ phase = "raw"
    /\ \E n \in 0..MaxNormLen : raw \in [1..n -> NormAlphabet]
    /\ analysis \in NormAnalyses
    /\ once = <<>> /\ twice = <<>>
    /\ IdleClassify /\ IdleChunk /\ IdleValidate /\ IdleSummary /\ IdleCache /\ IdleMore

NextNorm == Preprocess \/ PreprocessAgain

SpecNorm == InitNorm /\ [][NextNorm]_vars

\* C20: preprocessText is idempotent: for every text and every fixed
\* analysis the second pass returns what the first returned, also when the
\* first pass removed citations or replaced equation or code spans.
C20_PreprocessIsIdempotent ==
    phase = "twice" => twice = once

-----------------------------------------------------------------------------
(* The auth middleware (unnamed/part_009), placed before the handler of     *)
(* every protected route.                                                   *)
(*                                                                          *)
(* An authorization header is a sequence of pieces: the piece "Bearer " and *)
(* tokens.  A token is well signed for one user id, or forged.  Several     *)
(* requests are in flight at once: the middleware runs from its entry to    *)
(* the await of User.findOne without interruption, and from the end of the  *)
(* await to its end.                                                        *)

MaxHeaderLen == 2    \* pieces in an authorization header

AuthRequests == {"r1", "r2"}

UserIds == {"u1", "u2"}

\* jwt.sign({_id: u}, JWT_SECRET) for each user id, and a token that does
\* not verify (bad signature, expired, malformed)
SignedTokens == {[piece |-> "token", signed |-> TRUE, id |-> u] : u \in UserIds}
Tokens == SignedTokens \cup {[piece |-> "token", signed |-> FALSE, id |-> "u1"]}

Bearer == [piece |-> "Bearer ", signed |-> FALSE, id |-> None]

HeaderPieces == {Bearer} \cup Tokens

\* req.headers.authorization: undefined, or a string
NoHeader == [present |-> FALSE, value |-> <<>>]
AuthHeaders ==
    {NoHeader} \cup
    {[present |-> TRUE, value |-> v] : v \in SeqsUpTo(HeaderPieces, MaxHeaderLen)}

\* authHeader.replace('Bearer ', ''): the first occurrence is removed
RECURSIVE replaceBearer(_)
replaceBearer(h) ==
    IF h = <<>> THEN <<>>
    ELSE IF Head(h) = Bearer THEN Tail(h)
    ELSE <<Head(h)>> \o replaceBearer(Tail(h))

verifiesAnyToken(token) == Len(token) >= 1 /\ Head(token) # Bearer

\* jwt.verify(token, secret) returns the payload of a well signed token;
\* it throws for anything else
verifies(token) == Len(token) = 1 /\ token[1] \in SignedTokens

verify(token) == token[1].id

findsAnyone(db, id) == id

\* User.findOne({_id}) resolves to the document, or to null
findOne(db, id) == IF id \in db THEN id ELSE None

\* res.status(401).json({error: 'Please authenticate.'}) of the catch block
Answer401(r) ==
    /\ authStatus' = [authStatus EXCEPT ![r] = 401]
    /\ authPc' = [authPc EXCEPT ![r] = "answered"]

\* auth(req, res, next) from its entry to the await of User.findOne
AuthEnter(r) ==
    /\ authPc[r] = "entry"
    /\ LET h == authHeader[r] IN
       IF ~h.present \/ h.value = <<>>
       THEN Answer401(r) /\ UNCHANGED decoded          \* 'No authorization header'
       ELSE LET token == replaceBearer(h.value) IN
            IF token = <<>>
            THEN Answer401(r) /\ UNCHANGED decoded     \* 'No token provided'
            ELSE IF ~verifies(token)
            THEN Answer401(r) /\ UNCHANGED decoded     \* jwt.verify throws
            ELSE /\ decoded' = [decoded EXCEPT ![r] = verify(token)]
                 /\ authPc' = [authPc EXCEPT ![r] = "finding"]
                 /\ UNCHANGED authStatus
    /\ UNCHANGED <<authHeader, users, reqUser, handlerRuns>>
    /\ UNCHANGED exceptAuth

\* User.findOne resolves: without a user the catch block answers 401, with
\* one req.user is set and next() called.
FindOneResolves(r) ==
    /\ authPc[r] = "finding"
    /\ LET user == findOne(users, decoded[r]) IN
       IF user = None
       THEN Answer401(r) /\ UNCHANGED <<reqUser, handlerRuns>>   \* 'User not found'
       ELSE /\ reqUser' = [reqUser EXCEPT ![r] = user]
            /\ handlerRuns' = [handlerRuns EXCEPT ![r] = @ + 1]
            /\ authPc' = [authPc EXCEPT ![r] = "passed"]
            /\ UNCHANGED authStatus
    /\ UNCHANGED <<authHeader, users, decoded>>
    /\ UNCHANGED exceptAuth

\* User.findOne rejects (the database cannot be reached): the catch block
FindOneRejects(r) ==
    /\ authPc[r] = "finding"
    /\ Answer401(r)
    /\ UNCHANGED <<authHeader, users, decoded, reqUser, handlerRuns>>
    /\ UNCHANGED exceptAuth

InitAuth ==
    /\ phase = "auth"
    /\ analysis = None
    /\ authHeader \in [AuthRequests -> AuthHeaders]
    /\ users \in SUBSET UserIds
    /\ authPc = [r \in AuthRequests |-> "entry"]
    /\ decoded = [r \in AuthRequests |-> None]
    /\ reqUser = [r \in AuthRequests |-> None]
    /\ authStatus = [r \in AuthRequests |-> 0]
    /\ handlerRuns = [r \in AuthRequests |-> 0]
    /\ IdleClassify /\ IdleChunk /\ IdleValidate /\ IdleSummary
    /\ IdleCache /\ IdleNorm /\ IdleBoot /\ IdleFile /\ IdleTemp /\ IdleShorten

NextAuth ==
    \E r \in AuthRequests :
        \/ AuthEnter(r)
        \/ FindOneResolves(r)
        \/ FindOneRejects(r)

SpecAuth == InitAuth /\ [][NextAuth]_vars

\* the header holds a token that verifies and whose user is in the database
CarriesTokenOfUser(h) ==
    /\ h.present
    /\ \E i \in 1..Len(h.value) : h.value[i] \in SignedTokens /\ h.value[i].id \in users

AuthEnded(r) == authPc[r] \in {"passed", "answered"}

\* C21: the handler behind auth runs only for a request whose token verifies
\* and whose user exists, and then req.user is that user; every other
\* request is answered 401 and its handler never runs; no request gets both.
C21_HandlerOnlyBehindValidToken ==
    \A r \in AuthRequests :
        /\ handlerRuns[r] <= 1
        /\ handlerRuns[r] = 1 =>
              /\ CarriesTokenOfUser(authHeader[r])
              /\ reqUser[r] \in users
              /\ \E i \in 1..Len(authHeader[r].value) :
                    authHeader[r].value[i] =
                        [piece |-> "token", signed |-> TRUE, id |-> reqUser[r]]
              /\ authStatus[r] = 0
        /\ authStatus[r] # 0 =>
              authStatus[r] = 401 /\ handlerRuns[r] = 0 /\ reqUser[r] = None
        /\ AuthEnded(r) => (handlerRuns[r] = 1 \/ authStatus[r] = 401)
        /\ (AuthEnded(r) /\ ~CarriesTokenOfUser(authHeader[r])) => authStatus[r] = 401

\* One request passed with a Bearer token of an existing user while another,
\* whose token is well signed for a user that does not exist, got 401.
C21_Witness ==
    \E r1, r2 \in AuthRequests :
        /\ handlerRuns[r1] = 1 /\ reqUser[r1] # None
        /\ Len(authHeader[r1].value) = 2 /\ authHeader[r1].value[1] = Bearer
        /\ authStatus[r2] = 401
        /\ Len(authHeader[r2].value) = 2
        /\ authHeader[r2].value[2] \in SignedTokens
        /\ authHeader[r2].value[2].id \notin users

-----------------------------------------------------------------------------
(* The start of the server (backend/src/index.ts): connectWithRetry.        *)
(*                                                                          *)
(* One call of connectWithRetry is in progress or one timer is pending.     *)
(* The try block ends in one of three ways: mongoose.connect rejects,       *)
(* mongoose.connect resolves and app.listen returns, or mongoose.connect    *)
(* resolves and app.listen throws (a port out of range); the last two       *)
(* failures reach the same catch block.                                     *)

maxRetries == 5

\* what mongoose.connect may reject with
ConnectErrors == {"ECONNREFUSED", "server selection timed out"}

\* what app.listen may throw
ListenErrors == {"ERR_SOCKET_BAD_PORT"}

mayRetryOnceMore(count) == count <= maxRetries

\* if (retryCount < maxRetries)
mayRetry(count) == count < maxRetries

\* the catch block of connectWithRetry: the error is reported, then a retry
\* is scheduled or the process exits
Catch(error) ==
    /\ bootLog' = Append(bootLog, [attempt |-> retryCount, error |-> error])
    /\ IF mayRetry(retryCount)
       THEN /\ timers' = timers + 1
            /\ bootPc' = "waiting"
            /\ UNCHANGED exitCode
       ELSE /\ exitCode' = 1
            /\ bootPc' = "exited"
            /\ UNCHANGED timers

\* mongoose.connect resolves and app.listen returns
ConnectResolves ==
    /\ bootPc = "connecting"
    /\ connected' = TRUE
    /\ listening' = TRUE
    /\ bootPc' = "serving"
    /\ UNCHANGED <<retryCount, attempts, timers, exitCode, bootLog>>
    /\ UNCHANGED exceptBoot

\* mongoose.connect resolves and app.listen throws
ListenThrows ==
    /\ bootPc = "connecting"
    /\ connected' = TRUE
    /\ \E error \in ListenErrors : Catch(error)
    /\ UNCHANGED <<retryCount, attempts, listening>>
    /\ UNCHANGED exceptBoot

\* mongoose.connect rejects
ConnectRejects ==
    /\ bootPc = "connecting"
    /\ \E error \in ConnectErrors : Catch(error)
    /\ UNCHANGED <<retryCount, attempts, connected, listening>>
    /\ UNCHANGED exceptBoot

\* the timer fires: connectWithRetry(retryCount + 1, maxRetries) runs up to
\* its await of mongoose.connect
TimerFires ==
    /\ bootPc = "waiting"
    /\ timers > 0
    /\ timers' = timers - 1
    /\ retryCount' = retryCount + 1
    /\ attempts' = attempts + 1
    /\ bootPc' = "connecting"
    /\ UNCHANGED <<connected, listening, exitCode, bootLog>>
    /\ UNCHANGED exceptBoot

\* connectWithRetry() of the last line has run up to its await
InitBoot ==
    /\ phase = "boot"
    /\ analysis = None
    /\ bootPc = "connecting"
    /\ retryCount = 1
    /\ attempts = 1
    /\ timers = 0
    /\ connected = FALSE
    /\ listening = FALSE
    /\ exitCode = NoExit
    /\ bootLog = <<>>
    /\ IdleClassify /\ IdleChunk /\ IdleValidate /\ IdleSummary
    /\ IdleCache /\ IdleNorm /\ IdleAuth /\ IdleFile /\ IdleTemp /\ IdleShorten

NextBoot == ConnectResolves \/ ListenThrows \/ ConnectRejects \/ TimerFires

SpecBoot == InitBoot /\ [][NextBoot]_vars

\* the try block of the call in progress fails in this step
AttemptFails == bootPc = "connecting" /\ Len(bootLog') = Len(bootLog) + 1

\* C22: the server listens only after a connection attempt has succeeded;
\* at most maxRetries attempts are made; each failure before the last
\* schedules exactly one retry; when the last attempt fails the process
\* exits with code 1, never having listened, and schedules nothing.
C22_ListenAfterConnectAtMostFiveAttempts ==
    /\ [](/\ listening => connected
          /\ attempts <= maxRetries
          /\ timers <= 1
          /\ exitCode # NoExit =>
                /\ exitCode = 1 /\ ~listening /\ timers = 0
                /\ attempts = maxRetries)
    /\ [][AttemptFails =>
            IF attempts < maxRetries
            THEN timers' = timers + 1 /\ exitCode' = NoExit
            ELSE timers' = 0 /\ exitCode' = 1 /\ ~listening']_vars

\* The fifth attempt has failed and the process has exited; every earlier
\* failure was a rejected connection.
C22_Witness ==
    /\ bootPc = "exited"
    /\ attempts = 5
    /\ Len(bootLog) = 5
    /\ \A i \in 1..5 : bootLog[i].error \in ConnectErrors
    /\ ~connected

-----------------------------------------------------------------------------
(* POST /file (summarize.ts 768-1077): one request, from the await of the   *)
(* upload to the response.  Each action runs the handler from the end of    *)
(* one await to the next await or to the response.                          *)
(*                                                                          *)
(* A text is its length, whether it is blank (trim() leaves nothing) and    *)
(* whether analyzeDocument gives it the type research; for a PDF the text   *)
(* is the one left after the cleaning and the section selection of lines    *)
(* 811-866.                                                                 *)

MaxFileTextLength == 14000   \* characters of the text extracted from a file

MinMeaningfulLength == 100   \* if (text.length < 100) throw

\* the shortest text with a match of each of the four patterns that make a
\* research paper: 'abstract ' + 'methods' + 'impact' + 'references'
MinResearchLength == 32

Uploads ==
    {[kind |-> "error", mimetype |-> None], [kind |-> "nofile", mimetype |-> None]}
    \cup {[kind |-> "file", mimetype |-> m] : m \in {"application/pdf", "text/plain"}}

\* what fs.readFile(filePath, 'utf8') may resolve to
FileTexts ==
    {[length |-> n, blank |-> TRUE, research |-> FALSE] : n \in 0..1}
    \cup {[length |-> n, blank |-> FALSE, research |-> FALSE] : n \in 1..MaxFileTextLength}
    \cup {[length |-> n, blank |-> FALSE, research |-> TRUE] :
            n \in MinResearchLength..MaxFileTextLength}

\* what is left of the text of a PDF
PdfTexts ==
    {[length |-> n, blank |-> n = 0, research |-> FALSE] : n \in 0..MaxFileTextLength}

\* Math.min(2000, Math.floor(text.length * 0.4)) and
\* Math.max(500, Math.floor(text.length * 0.15))
parameters(t) ==
    [sent |-> TRUE,
     max_length |-> Min(2000, (t.length * 4) \div 10),
     min_length |-> Max(500, (t.length * 15) \div 100)]

\* return res.status(..).json(..)
FileRespond(status, details) ==
    /\ fileResponse' = [status |-> status, details |-> details]
    /\ filePc' = "responded"

FileCatchWithoutCleanup(message) ==
    /\ FileRespond(500, message)
    /\ UNCHANGED unlinks

\* the catch block up to its await of fs.unlink, or to the response when
\* filePath is still empty
FileCatch(message) ==
    IF filePath # ""
    THEN /\ unlinks' = unlinks + 1
         /\ filePc' = "cleanup"
         /\ fileResponse' = [status |-> 0, details |-> message]
    ELSE /\ FileRespond(500, message)
         /\ UNCHANGED unlinks

\* upload.single('file') calls back with an error (a file type that is not
\* allowed, a file too large): nothing is left on disk
UploadRejects ==
    /\ filePc = "uploading"
    /\ upload.kind = "error"
    /\ FileCatch("upload failed")
    /\ UNCHANGED <<upload, filePath, fileOnDisk, fileText, fileParams, fileSaved>>
    /\ UNCHANGED exceptFile

\* upload.single('file') calls back without error
UploadResolves ==
    /\ filePc = "uploading"
    /\ upload.kind # "error"
    /\ IF upload.kind = "nofile"
       THEN /\ FileCatch("No file uploaded")
            /\ UNCHANGED <<filePath, fileOnDisk>>
       ELSE /\ filePath' = "uploads/file"
            /\ fileOnDisk' = TRUE
            /\ filePc' = "reading"
            /\ UNCHANGED <<unlinks, fileResponse>>
    /\ UNCHANGED <<upload, fileText, fileParams, fileSaved>>
    /\ UNCHANGED exceptFile

ReadFileRejects ==
    /\ filePc = "reading"
    /\ FileCatch("read failed")
    /\ UNCHANGED <<upload, filePath, fileOnDisk, fileText, fileParams, fileSaved>>
    /\ UNCHANGED exceptFile

\* fs.readFile resolves: a PDF goes to pdf(), a text file is validated and
\* sent to the model of its kind
ReadFileResolves ==
    /\ filePc = "reading"
    /\ IF upload.mimetype = "application/pdf"
       THEN /\ filePc' = "parsing"
            /\ UNCHANGED <<unlinks, fileText, fileParams, fileResponse>>
       ELSE \E t \in FileTexts :
               /\ fileText' = t
               /\ IF t.blank
                  THEN /\ FileCatch("No readable text content found in file")
                       /\ UNCHANGED fileParams
                  ELSE IF t.research
                  THEN /\ fileParams' = parameters(t)
                       /\ filePc' = "posting"
                       /\ UNCHANGED <<unlinks, fileResponse>>
                  ELSE /\ filePc' = "generating"
                       /\ UNCHANGED <<unlinks, fileParams, fileResponse>>
    /\ UNCHANGED <<upload, filePath, fileOnDisk, fileSaved>>
    /\ UNCHANGED exceptFile

PdfRejects ==
    /\ filePc = "parsing"
    /\ FileCatch("pdf failed")
    /\ UNCHANGED <<upload, filePath, fileOnDisk, fileText, fileParams, fileSaved>>
    /\ UNCHANGED exceptFile

\* pdf() resolves: the text is cleaned, checked for its length and posted
PdfResolves ==
    /\ filePc = "parsing"
    /\ \E t \in PdfTexts :
          /\ fileText' = t
          /\ IF t.length < MinMeaningfulLength
             THEN /\ FileCatch("Could not extract meaningful content from the PDF")
                  /\ UNCHANGED fileParams
             ELSE /\ fileParams' = parameters(t)
                  /\ filePc' = "posting"
                  /\ UNCHANGED <<unlinks, fileResponse>>
    /\ UNCHANGED <<upload, filePath, fileOnDisk, fileSaved>>
    /\ UNCHANGED exceptFile

\* axios.post rejects, or resolves with data that holds no summary_text
\* container (reading response.data[0].summary_text throws)
PostFails ==
    /\ filePc = "posting"
    /\ \E message \in {"Request failed", "Cannot read properties of undefined"} :
          FileCatch(message)
    /\ UNCHANGED <<upload, filePath, fileOnDisk, fileText, fileParams, fileSaved>>
    /\ UNCHANGED exceptFile

\* generateEnhancedSummary(text, 'file') rejects
GenerateFails ==
    /\ filePc = "generating"
    /\ FileCatch("All summary generation attempts failed")
    /\ UNCHANGED <<upload, filePath, fileOnDisk, fileText, fileParams, fileSaved>>
    /\ UNCHANGED exceptFile

\* the summary is there: new Summary(..).save() is called
SummaryArrives ==
    /\ filePc \in {"posting", "generating"}
    /\ filePc' = "saving"
    /\ UNCHANGED <<upload, filePath, fileOnDisk, unlinks, fileText, fileParams,
                   fileSaved, fileResponse>>
    /\ UNCHANGED exceptFile

FileSaveRejects ==
    /\ filePc = "saving"
    /\ FileCatch("save failed")
    /\ UNCHANGED <<upload, filePath, fileOnDisk, fileText, fileParams, fileSaved>>
    /\ UNCHANGED exceptFile

\* save() resolves: fs.unlink(filePath) is called
FileSaveResolves ==
    /\ filePc = "saving"
    /\ fileSaved' = TRUE
    /\ unlinks' = unlinks + 1
    /\ filePc' = "unlinking"
    /\ UNCHANGED <<upload, filePath, fileOnDisk, fileText, fileParams, fileResponse>>
    /\ UNCHANGED exceptFile

\* fs.unlink resolves: the file is gone and 200 is answered
UnlinkResolves ==
    /\ filePc = "unlinking"
    /\ fileOnDisk' = FALSE
    /\ FileRespond(200, None)
    /\ UNCHANGED <<upload, filePath, unlinks, fileText, fileParams, fileSaved>>
    /\ UNCHANGED exceptFile

\* fs.unlink rejects: the catch block
UnlinkRejects ==
    /\ filePc = "unlinking"
    /\ FileCatch("unlink failed")
    /\ UNCHANGED <<upload, filePath, fileOnDisk, fileText, fileParams, fileSaved>>
    /\ UNCHANGED exceptFile

\* fs.unlink of the catch block resolves or rejects (a rejection is only
\* logged): 500 is answered
CleanupEnds ==
    /\ filePc = "cleanup"
    /\ \E removed \in BOOLEAN :
          fileOnDisk' = IF removed THEN FALSE ELSE fileOnDisk
    /\ FileRespond(500, fileResponse.details)
    /\ UNCHANGED <<upload, filePath, unlinks, fileText, fileParams, fileSaved>>
    /\ UNCHANGED exceptFile

InitFile ==
    /\ phase = "file"
    /\ analysis = None
    /\ filePc = "uploading"
    /\ upload \in Uploads
    /\ filePath = ""
    /\ fileOnDisk = FALSE
    /\ unlinks = 0
    /\ fileText = NoText
    /\ fileParams = NoParams
    /\ fileSaved = FALSE
    /\ fileResponse = [status |-> 0, details |-> None]
    /\ IdleClassify /\ IdleChunk /\ IdleValidate /\ IdleSummary
    /\ IdleCache /\ IdleNorm /\ IdleAuth /\ IdleBoot /\ IdleTemp /\ IdleShorten

NextFile ==
    \/ UploadRejects \/ UploadResolves
    \/ ReadFileRejects \/ ReadFileResolves
    \/ PdfRejects \/ PdfResolves
    \/ PostFails \/ GenerateFails \/ SummaryArrives
    \/ FileSaveRejects \/ FileSaveResolves
    \/ UnlinkResolves \/ UnlinkRejects
    \/ CleanupEnds

SpecFile == InitFile /\ [][NextFile]_vars

FileAnswered == filePc = "responded"

\* C23: once the uploaded file is stored, every path that ends the handler
\* has tried to delete it before the response is sent.
C23_UnlinkAttemptedBeforeResponse ==
    (FileAnswered /\ filePath # "") => unlinks >= 1

\* An error after the file was stored: 500 is answered after one attempt to
\* delete the file.
C23_Witness ==
    /\ FileAnswered
    /\ filePath # ""
    /\ fileResponse.status = 500
    /\ unlinks = 1
    /\ ~fileSaved

\* C27: the parameters POST /file sends to the backend satisfy
\* min_length <= max_length for every text length the handler accepts.
C27_MinLengthAtMostMaxLength ==
    fileParams.sent => fileParams.min_length <= fileParams.max_length

\* C28: when POST /file answers with an error status no Summary has been
\* saved for the request.
C28_NoSummarySavedOnError ==
    (FileAnswered /\ fileResponse.status >= 400) => ~fileSaved

-----------------------------------------------------------------------------
(* runLocalModel (summarize.ts 31-53) under the concurrent calls of         *)
(* generateEnhancedSummary.                                                 *)
(*                                                                          *)
(* Promise.all(Object.entries(MODEL_CONFIGS).map(async ...)) runs every     *)
(* callback, in the order of MODEL_CONFIGS, up to its first pending await   *)
(* before any continuation runs: each invocation of runLocalModel reads     *)
(* Date.now(), names its temp file after it and starts fs.writeFile.  The   *)
(* clock may or may not advance between two of these reads.  Afterwards     *)
(* the invocations proceed independently: the write ends, the Python script *)
(* opens the file, the script ends, fs.unlink ends.                         *)

MaxClockTicks == 1   \* milliseconds the clock may advance during the dispatch

OrderOf(m) == CHOOSE i \in 1..Len(ModelOrder) : ModelOrder[i] = m

\* the values Date.now() may return to the invocations, in dispatch order
Timestamps ==
    {ts \in [Models -> 0..MaxClockTicks] :
        \A m, n \in Models : OrderOf(m) < OrderOf(n) => ts[m] <= ts[n]}

\* `${Date.now()}_input.txt`
tmpPathOf(now) == <<now, "_input.txt">>

NoPath == <<-1, "">>

\* the five callbacks run up to `await fs.writeFile(tmpInputPath, text)`
DispatchAll ==
    /\ \A m \in Models : runPc[m] = "idle"
    /\ \E ts \in Timestamps :
          tmpInputPath' = [m \in Models |-> tmpPathOf(ts[m])]
    /\ runPc' = [m \in Models |-> "writing"]
    /\ UNCHANGED <<runError, tmpFiles>>
    /\ UNCHANGED exceptTemp

\* fs.writeFile resolves: the file exists (created or overwritten), and
\* execAsync starts the script
WriteResolves(m) ==
    /\ runPc[m] = "writing"
    /\ tmpFiles' = tmpFiles \cup {tmpInputPath[m]}
    /\ runPc' = [runPc EXCEPT ![m] = "starting"]
    /\ UNCHANGED <<tmpInputPath, runError>>
    /\ UNCHANGED exceptTemp

\* the script opens its input file; without the file it ends with an error
\* and execAsync rejects
ScriptOpensInput(m) ==
    /\ runPc[m] = "starting"
    /\ IF tmpInputPath[m] \in tmpFiles
       THEN /\ runPc' = [runPc EXCEPT ![m] = "inferring"]
            /\ UNCHANGED runError
       ELSE /\ runPc' = [runPc EXCEPT ![m] = "thrown"]
            /\ runError' = [runError EXCEPT ![m] = "input file not found"]
    /\ UNCHANGED <<tmpInputPath, tmpFiles>>
    /\ UNCHANGED exceptTemp

\* execAsync resolves: fs.unlink(tmpInputPath) is called
ExecResolves(m) ==
    /\ runPc[m] = "inferring"
    /\ runPc' = [runPc EXCEPT ![m] = "unlinking"]
    /\ UNCHANGED <<tmpInputPath, runError, tmpFiles>>
    /\ UNCHANGED exceptTemp

\* execAsync rejects for a reason of the model itself; the catch block
\* throws, the temp file stays
ExecRejects(m) ==
    /\ runPc[m] = "inferring"
    /\ runPc' = [runPc EXCEPT ![m] = "thrown"]
    /\ runError' = [runError EXCEPT ![m] = "inference failed"]
    /\ UNCHANGED <<tmpInputPath, tmpFiles>>
    /\ UNCHANGED exceptTemp

\* fs.unlink ends: it removes the file and the summary is returned, or it
\* rejects with ENOENT and the catch block throws
UnlinkEnds(m) ==
    /\ runPc[m] = "unlinking"
    /\ IF tmpInputPath[m] \in tmpFiles
       THEN /\ tmpFiles' = tmpFiles \ {tmpInputPath[m]}
            /\ runPc' = [runPc EXCEPT ![m] = "returned"]
            /\ UNCHANGED runError
       ELSE /\ runPc' = [runPc EXCEPT ![m] = "thrown"]
            /\ runError' = [runError EXCEPT ![m] = "ENOENT"]
            /\ UNCHANGED tmpFiles
    /\ UNCHANGED tmpInputPath
    /\ UNCHANGED exceptTemp

InitTemp ==
    /\ phase = "temp"
    /\ analysis = None
    /\ tmpInputPath = [m \in Models |-> NoPath]
    /\ runPc = [m \in Models |-> "idle"]
    /\ runError = [m \in Models |-> None]
    /\ tmpFiles = {}
    /\ IdleClassify /\ IdleChunk /\ IdleValidate /\ IdleSummary
    /\ IdleCache /\ IdleNorm /\ IdleAuth /\ IdleBoot /\ IdleFile /\ IdleShorten

NextTemp ==
    \/ DispatchAll
    \/ \E m \in Models :
          \/ WriteResolves(m)
          \/ ScriptOpensInput(m)
          \/ ExecResolves(m)
          \/ ExecRejects(m)
          \/ UnlinkEnds(m)

SpecTemp == InitTemp /\ [][NextTemp]_vars

InFlight(m) == runPc[m] \in {"writing", "starting", "inferring", "unlinking"}

\* C24: the concurrent invocations of runLocalModel each have a temp input
\* file of their own, and none fails because another one removed its file.
C24_TempFilesArePrivate ==
    /\ \A m, n \in Models :
          (m # n /\ InFlight(m) /\ InFlight(n)) => tmpInputPath[m] # tmpInputPath[n]
    /\ \A m \in Models : runError[m] \notin {"input file not found", "ENOENT"}

-----------------------------------------------------------------------------
(* The text generateSummary (part_001) gives to runLocalModel: the cleaning *)
(* of lines 162-165 and the shortening of lines 168-174.                    *)
(*                                                                          *)
(* A text is a sequence of characters; "Contact" stands for any of the      *)
(* keywords of the first replace and counts as one character.  The limit of *)
(* 1000 characters is scaled down.                                          *)

MaxGivenLen == 5      \* characters of a text given to generateSummary

maxChunkLength == 3   \* 1000 in the source

GivenAlphabet == {"a", ".", " ", "\n", "Contact"}

\* .replace(/(?:Contact|...).*$/gim, ''): on every line, what follows the
\* first keyword is removed with it
RECURSIVE removeFooters(_, _)
removeFooters(t, dropping) ==
    IF t = <<>> THEN <<>>
    ELSE IF Head(t) = "\n" THEN <<"\n">> \o removeFooters(Tail(t), FALSE)
    ELSE IF dropping \/ Head(t) = "Contact" THEN removeFooters(Tail(t), TRUE)
    ELSE <<Head(t)>> \o removeFooters(Tail(t), FALSE)

cleaned(t) == trim(replace(removeFooters(t, FALSE), "whitespace", <<" ">>))

\* Array.prototype.join(' ')
RECURSIVE joinBySpace(_)
joinBySpace(ss) ==
    IF ss = <<>> THEN <<>>
    ELSE IF Len(ss) = 1 THEN ss[1]
    ELSE ss[1] \o <<" ">> \o joinBySpace(Tail(ss))

\* sentences.slice(0, middleIndex + 1).join(' ')
firstHalf(c) ==
    LET sentences == matchSentences(c)
        middleIndex == Len(sentences) \div 2
    IN  joinBySpace(SubSeq(sentences, 1, Min(middleIndex + 1, Len(sentences))))

\* if (cleanText.length > maxChunkLength) textToProcess = (the first half)
shortened(c) == IF Len(c) > maxChunkLength THEN firstHalf(c) ELSE c

\* const cleanText = text.replace(..).replace(/\s+/g, ' ').trim()
CleanGiven ==
    /\ phase = "given"
    /\ cleanText' = cleaned(givenText)
    /\ phase' = "cleaned"
    /\ UNCHANGED <<givenText, textToProcess>>
    /\ UNCHANGED <<analysis, classifyVars, chunkVars, validateVars, summaryVars>>
    /\ UNCHANGED <<cacheVars, normVars, authVars, bootVars, fileVars, tempVars>>

\* the text is shortened and runLocalModel(textToProcess, ...) called
InvokeBackend ==
    /\ phase = "cleaned"
    /\ textToProcess' = shortened(cleanText)
    /\ phase' = "invoked"
    /\ UNCHANGED <<givenText, cleanText>>
    /\ UNCHANGED <<analysis, classifyVars, chunkVars, validateVars, summaryVars>>
    /\ UNCHANGED <<cacheVars, normVars, authVars, bootVars, fileVars, tempVars>>

InitShorten ==
    /\ phase = "given"
    /\ analysis = None
    /\ givenText \in SeqsUpTo(GivenAlphabet, MaxGivenLen)
    /\ cleanText = <<>>
    /\ textToProcess = <<>>
    /\ IdleClassify /\ IdleChunk /\ IdleValidate /\ IdleSummary
    /\ IdleCache /\ IdleNorm /\ IdleAuth /\ IdleBoot /\ IdleFile /\ IdleTemp

NextShorten == CleanGiven \/ InvokeBackend

SpecShorten == InitShorten /\ [][NextShorten]_vars

\* C26: the backend is never invoked with an empty text when the cleaned
\* text is not empty, also when the cleaned text is longer than the limit
\* and is shortened.
C26_BackendTextNotEmpty ==
    (phase = "invoked" /\ cleanText # <<>>) => textToProcess # <<>>

====
